---- MODULE Spec2Model ----
(***************************************************************************)
(* A model of the PDF -> Excel field extractor: the text heuristics of     *)
(* heuristics.py (character level) and the run of ExtractWorker            *)
(* (worker.py).  A text is a sequence of one-character strings; indices    *)
(* named as in the source (start_idx, end_idx, idx, ...) are 0-based as    *)
(* in Python, and element j of a Python list is element j + 1 here.        *)
(* A value that the source binds once and reads several times (a match, a  *)
(* position) is the argument of a local operator here.                     *)
(***************************************************************************)
EXTENDS Integers, Sequences, FiniteSets, TLC

\* ------------------------------------------------------------------------
\* Characters and strings
\* ------------------------------------------------------------------------

\* a string literal as the sequence of its characters
Chars(s) == [i \in 1 .. Len(s) |-> SubSeq(s, i, i)]

UpperAlphabet == Chars("ABCDEFGHIJKLMNOPQRSTUVWXYZÁÉÍÓÚÑ")
LowerAlphabet == Chars("abcdefghijklmnopqrstuvwxyzáéíóúñ")

AsciiUpper == {UpperAlphabet[i] : i \in 1 .. 26}
AsciiLower == {LowerAlphabet[i] : i \in 1 .. 26}
AllUpper == {UpperAlphabet[i] : i \in 1 .. 32}
AllLower == {LowerAlphabet[i] : i \in 1 .. 32}
Digits == {"0", "1", "2", "3", "4", "5", "6", "7", "8", "9"}

\* \s of the re module, on the characters the model uses
IsSpace(c) == c \in {" ", "\t", "\n"}

\* \w of the re module
IsWord(c) == c \in AllUpper \cup AllLower \cup Digits \cup {"_"}

\* str.upper() and str.lower(), one character
UpperChar(c) ==
    IF c \in AllLower
    THEN UpperAlphabet[CHOOSE i \in 1 .. 32 : LowerAlphabet[i] = c]
    ELSE c

LowerChar(c) ==
    IF c \in AllUpper
    THEN LowerAlphabet[CHOOSE i \in 1 .. 32 : UpperAlphabet[i] = c]
    ELSE c

upper(s) == [i \in 1 .. Len(s) |-> UpperChar(s[i])]
lower(s) == [i \in 1 .. Len(s) |-> LowerChar(s[i])]

\* s[a:b] of Python for 0 <= a
Slice(s, a, b) == SubSeq(s, a + 1, IF b < Len(s) THEN b ELSE Len(s))

\* the least element of a non-empty set of integers
Least(S) == CHOOSE x \in S : \A y \in S : x <= y

\* the least and the greatest element of a set of integers, or the default
\* when the set is empty
LeastOr(S, default) ==
    IF S = {} THEN default ELSE CHOOSE x \in S : \A y \in S : x <= y

GreatestOr(S, default) ==
    IF S = {} THEN default ELSE CHOOSE x \in S : \A y \in S : y <= x

\* needle occurs in hay at the 0-based position p
MatchAt(hay, needle, p) ==
    /\ p >= 0
    /\ p + Len(needle) <= Len(hay)
    /\ \A k \in 1 .. Len(needle) : hay[p + k] = needle[k]

\* str.find: the 0-based position of the first occurrence, or -1
find(hay, needle) ==
    LeastOr({p \in 0 .. Len(hay) - Len(needle) : MatchAt(hay, needle, p)}, -1)

\* needle in hay
Contains(hay, needle) == \E p \in 0 .. Len(hay) - Len(needle) : MatchAt(hay, needle, p)

\* the length of the maximal prefix of s whose characters are in the class
RunLen(s, class) ==
    LeastOr({i \in 1 .. Len(s) : s[i] \notin class}, Len(s) + 1) - 1

\* the length of the maximal prefix of s whose characters are not in the class
RunLenNot(s, class) ==
    LeastOr({i \in 1 .. Len(s) : s[i] \in class}, Len(s) + 1) - 1

\* the length of the maximal suffix of s whose characters are in the class
RunLenBack(s, class) ==
    Len(s) - GreatestOr({i \in 1 .. Len(s) : s[i] \notin class}, 0)

Spaces == {" ", "\t", "\n"}

\* x.strip(chars)
strip_chars(x, set) ==
    IF RunLen(x, set) = Len(x) THEN <<>>
    ELSE SubSeq(x, RunLen(x, set) + 1, Len(x) - RunLenBack(x, set))

lstrip(s) == SubSeq(s, RunLen(s, Spaces) + 1, Len(s))

\* str.strip()
strip(s) == strip_chars(s, Spaces)

\* re.sub(r"\s{n,}", " ", s) for n = minRun
RECURSIVE SubSpaceRuns(_, _)
SubSpaceRuns(s, minRun) ==
    LET \* s begins with k characters that are not white space
        text_then(k) ==
            SubSeq(s, 1, k) \o SubSpaceRuns(SubSeq(s, k + 1, Len(s)), minRun)
        \* s begins with a run of n characters of white space
        run_then(n) ==
            IF n = 0 THEN text_then(RunLenNot(s, Spaces))
            ELSE (IF n >= minRun THEN <<" ">> ELSE SubSeq(s, 1, n))
                 \o SubSpaceRuns(SubSeq(s, n + 1, Len(s)), minRun)
    IN  IF s = <<>> THEN <<>> ELSE run_then(RunLen(s, Spaces))

\* normalize_spaces without the strip
normalize_spaces_nostrip(s) == SubSpaceRuns(s, 1)

normalize_spaces(s) == strip(SubSpaceRuns(s, 1))

\* str.split(): the maximal runs of non-space characters
RECURSIVE split(_)
split(s) ==
    LET word_then(t, n) == <<SubSeq(t, 1, n)>> \o split(SubSeq(t, n + 1, Len(t)))
        words(t) == IF t = <<>> THEN <<>> ELSE word_then(t, RunLenNot(t, Spaces))
    IN  words(lstrip(s))

\* str.splitlines(), "\n" being the only line boundary of the model's alphabet
RECURSIVE splitlines(_)
splitlines(t) ==
    LET line_then(k) ==
            IF k = -1 THEN <<t>>
            ELSE <<Slice(t, 0, k)>> \o splitlines(SubSeq(t, k + 2, Len(t)))
    IN  IF t = <<>> THEN <<>> ELSE line_then(find(t, <<"\n">>))

\* sep.join(parts)
RECURSIVE join(_, _)
join(sep, parts) ==
    IF parts = <<>> THEN <<>>
    ELSE IF Len(parts) = 1 THEN parts[1]
    ELSE parts[1] \o sep \o join(sep, Tail(parts))

\* ------------------------------------------------------------------------
\* heuristics.py: h_find_nombre_y_doc
\* ------------------------------------------------------------------------

start_markers ==
    << Chars("DATOS DEL TRABAJADOR / ASPIRANTE"),
       Chars("DATOS DEL TRABAJADOR"),
       Chars("DATOS DEL TRABAJADOR/ASPIRANTE"),
       Chars("DATOS DEL TRABAJADOR O ASPIRANTE") >>

stop_markers ==
    << Chars("CONCEPTO DE APTITUD"), Chars("CONCEPTO MÉDICO OCUPACIONAL"),
       Chars("CONCEPTO MEDICO OCUPACIONAL"),
       Chars("CARGO"), Chars("EPS"), Chars("ARL"), Chars("AFP"), Chars("NIT"),
       Chars("DIRECCIÓN"), Chars("DIRECCION"),
       Chars("EXÁMENES"), Chars("EXAMENES"), Chars("OBSERVACIONES"),
       Chars("RECOMENDACIONES") >>

cargo_tokens ==
    { Chars("GENERADOR"), Chars("GENERADORA"), Chars("OPERARIO"), Chars("OPERARIA"),
      Chars("AUXILIAR"), Chars("ASEO"), Chars("OFICIOS"), Chars("VARIOS"),
      Chars("CONDUCTOR"), Chars("VENDEDOR"), Chars("VENDEDORA"), Chars("MENSAJERO"),
      Chars("JEFE"), Chars("SUPERVISOR"), Chars("SUPERVISORA"), Chars("APRENDIZ"),
      Chars("COORDINADOR"), Chars("COORDINADORA"), Chars("PROFESIONAL"),
      Chars("TECNICO"), Chars("TÉCNICO"), Chars("AYUDANTE"), Chars("MANTENIMIENTO") }

\* the class [A-ZÁÉÍÓÚÑ ] of looks_like_upper_name and of strategy B
NameClass == AllUpper \cup {" "}

\* the class [0-9A-Z.\- ] of the document number, with and without re.I
DocClass(ignorecase) ==
    Digits \cup AsciiUpper \cup {".", "-", " "}
        \cup (IF ignorecase THEN AsciiLower ELSE {})

\* \b at the 0-based position r of s
Boundary(s, r) ==
    (r > 0 /\ IsWord(s[r])) # (r < Len(s) /\ IsWord(s[r + 1]))

\* the length of the match of (C\.?C\.?|TI|CE|PT) at position p, 0 if none
TokenLen(s, p, ignorecase) ==
    LET \* the character k places after p is the letter, in either case
        \* under re.I
        has(k, up, low) ==
            /\ p + k + 1 <= Len(s)
            /\ s[p + k + 1] = up \/ (ignorecase /\ s[p + k + 1] = low)
        dot(k) == IF has(k, ".", ".") THEN 1 ELSE 0
    IN  IF has(0, "C", "c") /\ has(1 + dot(1), "C", "c")
        THEN 2 + dot(1) + dot(2 + dot(1))
        ELSE IF has(0, "C", "c") /\ has(1, "E", "e") THEN 2
        ELSE IF has(0, "T", "t") /\ has(1, "I", "i") THEN 2
        ELSE IF has(0, "P", "p") /\ has(1, "T", "t") THEN 2
        ELSE 0

\* the length of the match of ([class]{5,}) at position g, followed by \b
\* when wordEnd, 0 if none: the number is greedy and gives characters back
NumberLen(s, g, ignorecase, wordEnd) ==
    GreatestOr({m \in 5 .. RunLen(SubSeq(s, g + 1, Len(s)), DocClass(ignorecase)) :
                   wordEnd => Boundary(s, g + m)}, 0)

\* the length \s+ keeps at position q for the number to match after it, 0 if
\* none: \s+ is greedy and gives characters back
GapLen(s, q, ignorecase, wordEnd) ==
    GreatestOr({k \in 1 .. RunLen(SubSeq(s, q + 1, Len(s)), Spaces) :
                   NumberLen(s, q + k, ignorecase, wordEnd) > 0}, 0)

\* the match of (token)\s+([class]{5,}) at position p, the number followed by
\* \b when wordEnd: <<token, number>>, or <<>> when there is none
TokenNumberAt(s, p, ignorecase, wordEnd) ==
    LET number(g) == SubSeq(s, g + 1, g + NumberLen(s, g, ignorecase, wordEnd))
        match(n, k) ==
            IF n = 0 \/ k = 0 THEN <<>>
            ELSE << SubSeq(s, p + 1, p + n), number(p + n + k) >>
        token(n) == match(n, GapLen(s, p + n, ignorecase, wordEnd))
    IN  token(TokenLen(s, p, ignorecase))

\* doc_re.search(s): <<group(1), group(2)>> of the leftmost match, or <<>>
doc_re_search(s) ==
    LET at(p) == IF p = -1 THEN <<>> ELSE TokenNumberAt(s, p, TRUE, TRUE)
    IN  at(LeastOr({p \in 0 .. Len(s) :
                       Boundary(s, p) /\ TokenNumberAt(s, p, TRUE, TRUE) # <<>>}, -1))

clean(s) == strip(SubSpaceRuns(s, 2))

\* str.capitalize()
capitalize(w) ==
    [i \in 1 .. Len(w) |-> IF i = 1 THEN UpperChar(w[i]) ELSE LowerChar(w[i])]

titlecase(s) ==
    LET capitalized(ws) == [i \in 1 .. Len(ws) |-> capitalize(ws[i])]
    IN  join(<<" ">>, capitalized(split(s)))

\* looks_like_upper_name without the check of cargo_tokens
looks_like_upper_name_nodeny(s) ==
    LET words(ws) == Cardinality({i \in 1 .. Len(ws) : Len(ws[i]) > 1}) >= 2
        name(su) ==
            /\ Len(su) >= 6
            /\ \A i \in 1 .. Len(su) : su[i] \in NameClass
            /\ words(split(su))
    IN  name(upper(s))

looks_like_upper_name(s) ==
    LET toks(ws) == {ws[i] : i \in {i \in 1 .. Len(ws) : Len(ws[i]) > 2}}
        words(ws) ==
            /\ toks(ws) \cap cargo_tokens = {}
            /\ Cardinality({i \in 1 .. Len(ws) : Len(ws[i]) > 1}) >= 2
        name(su) ==
            /\ Len(su) >= 6
            /\ \A i \in 1 .. Len(su) : su[i] \in NameClass
            /\ words(split(su))
    IN  name(upper(s))

\* the document as the function formats it from a match <<type, number>>
FormatDoc(m) ==
    SelectSeq(upper(m[1]), LAMBDA c : c # ".") \o <<" ">> \o clean(m[2])

\* the lines as h_find_nombre_y_doc prepares them
PreparedLines(text) ==
    LET prepared(raw_lines) ==
            [i \in 1 .. Len(raw_lines) |-> SubSpaceRuns(strip(raw_lines[i]), 2)]
    IN  prepared(splitlines(text))

HasMarker(ln, markers) ==
    LET marked(u) == \E i \in 1 .. Len(markers) : Contains(u, markers[i])
    IN  marked(upper(ln))

Block_start_idx(lines) ==
    LeastOr({i \in 0 .. Len(lines) - 1 : HasMarker(lines[i + 1], start_markers)}, -1)

\* Block_end_idx without the search of a stop marker
Block_end_idx_open(lines, start_idx) == Len(lines)

\* Block_end_idx where a stop marker counts only as a whole word of the line
Block_end_idx_tokens(lines, start_idx) ==
    LET word(ws, m) == \E i \in 1 .. Len(ws) : ws[i] = m
        marked(ws) == \E k \in 1 .. Len(stop_markers) : word(ws, stop_markers[k])
    IN  LeastOr({j \in start_idx + 1 .. Len(lines) - 1 :
                    marked(split(upper(lines[j + 1])))}, Len(lines))

Block_end_idx(lines, start_idx) ==
    LeastOr({j \in start_idx + 1 .. Len(lines) - 1 :
                HasMarker(lines[j + 1], stop_markers)}, Len(lines))

\* find_doc_near(idx_base) over the block
find_doc_near(block, idx_base) ==
    LET \* the n-th candidate in the order the two loops visit them
        order(n) == IF n % 2 = 1 THEN idx_base - (n - 1) \div 2
                                 ELSE idx_base + (n - 2) \div 2
        found(n) ==
            IF n = 0 THEN <<>> ELSE FormatDoc(doc_re_search(block[order(n) + 1]))
    IN  found(LeastOr({n \in 1 .. 14 :
                          /\ 0 <= order(n)
                          /\ order(n) < Len(block)
                          /\ doc_re_search(block[order(n) + 1]) # <<>>}, 0))

\* the match of strategy B's pattern on a line: <<group 1, type, number>> or <<>>
same_line_search(ln) ==
    LET \* where .*? stops after a group 1 of n characters, or -1
        tail(n) ==
            LeastOr({r \in n .. Len(ln) :
                        Boundary(ln, r) /\ TokenNumberAt(ln, r, FALSE, FALSE) # <<>>}, -1)
        match(n) ==
            IF n = 0 THEN <<>>
            ELSE <<SubSeq(ln, 1, n)>> \o TokenNumberAt(ln, tail(n), FALSE, FALSE)
    IN  match(GreatestOr({n \in 6 .. RunLen(ln, NameClass) : tail(n) # -1}, 0))

\* strategy A: <<name, doc>> or <<>>
StrategyA(block) ==
    LET label == Chars("APELLIDOS Y NOMBRES")
        cand(k) == strip(block[k + 1])
        first(hits) ==
            IF hits = {} THEN <<>>
            ELSE CHOOSE p \in hits :
                    \A q \in hits : p[1] < q[1] \/ (p[1] = q[1] /\ p[2] <= q[2])
        result(p) ==
            IF p = <<>> THEN <<>>
            ELSE <<titlecase(cand(p[2])), find_doc_near(block, p[2])>>
    IN  result(first({p \in (0 .. Len(block) - 1) \X (0 .. Len(block) - 1) :
                         /\ Contains(upper(block[p[1] + 1]), label)
                         /\ p[2] >= p[1] + 1
                         /\ p[2] < p[1] + 8
                         /\ cand(p[2]) # <<>>
                         /\ looks_like_upper_name(cand(p[2]))}))

\* strategy B: <<name, doc>> or <<>>
StrategyB(block) ==
    LET named(m) == m # <<>> /\ looks_like_upper_name(m[1])
        at(i) == IF i = -1 THEN <<>> ELSE same_line_search(block[i + 1])
        result(m) ==
            IF m = <<>> THEN <<>>
            ELSE <<titlecase(clean(m[1])), FormatDoc(<<m[2], m[3]>>)>>
    IN  result(at(LeastOr({i \in 0 .. Len(block) - 1 :
                              named(same_line_search(block[i + 1]))}, -1)))

\* strategy C where the closest line that looks like a name wins, above or
\* below the line of the document
StrategyC_nearest(block) ==
    LET cand(j) == strip(block[j + 1])
        above(i) ==
            LeastOr({up \in 1 .. 6 :
                        i - up >= 0 /\ looks_like_upper_name(cand(i - up))}, 0)
        below(i) ==
            LeastOr({dn \in 1 .. 4 :
                        i + dn < Len(block) /\ looks_like_upper_name(cand(i + dn))}, 0)
        name(i, up, dn) ==
            IF up # 0 /\ (dn = 0 \/ up <= dn) THEN titlecase(clean(cand(i - up)))
            ELSE IF dn # 0 THEN titlecase(clean(cand(i + dn)))
            ELSE <<>>
        result(i) ==
            IF i = -1 THEN <<>>
            ELSE <<name(i, above(i), below(i)), FormatDoc(doc_re_search(block[i + 1]))>>
    IN  result(LeastOr({i \in 0 .. Len(block) - 1 :
                           doc_re_search(block[i + 1]) # <<>>}, -1))

\* strategy C: <<name, doc>> or <<>>
StrategyC(block) ==
    LET cand(j) == strip(block[j + 1])
        \* the first line above and the first line below the line i of the
        \* document that look like a name, 0 without one
        above(i) ==
            LeastOr({up \in 1 .. 6 :
                        i - up >= 0 /\ looks_like_upper_name(cand(i - up))}, 0)
        below(i) ==
            LeastOr({dn \in 1 .. 4 :
                        i + dn < Len(block) /\ looks_like_upper_name(cand(i + dn))}, 0)
        name(i, up, dn) ==
            IF up # 0 THEN titlecase(clean(cand(i - up)))
            ELSE IF dn # 0 THEN titlecase(clean(cand(i + dn)))
            ELSE <<>>
        result(i) ==
            IF i = -1 THEN <<>>
            ELSE <<name(i, above(i), below(i)), FormatDoc(doc_re_search(block[i + 1]))>>
    IN  result(LeastOr({i \in 0 .. Len(block) - 1 :
                           doc_re_search(block[i + 1]) # <<>>}, -1))

h_find_nombre_y_doc(text) ==
    LET first_of(a, b, c) ==
            IF a # <<>> THEN a
            ELSE IF b # <<>> THEN b
            ELSE IF c # <<>> THEN c
            ELSE <<<<>>, <<>>>>
        in_block(block) ==
            IF block = <<>> THEN <<<<>>, <<>>>>
            ELSE first_of(StrategyA(block), StrategyB(block), StrategyC(block))
        from(lines, start_idx) ==
            IF start_idx = -1 THEN <<<<>>, <<>>>>
            ELSE in_block(SubSeq(lines, start_idx + 1, Block_end_idx(lines, start_idx)))
        in_lines(lines) == from(lines, Block_start_idx(lines))
    IN  in_lines(PreparedLines(text))

\* ------------------------------------------------------------------------
\* heuristics.py: the patterns of the other extractors
\* ------------------------------------------------------------------------

\* One item of a pattern whose items match without giving characters back:
\* a literal, one character of a set, an optional character, \s+, \s*,
\* exactly n digits, a greedy run of at least n characters of a set.
Lit(str) == [t |-> "lit", v |-> Chars(str), n |-> 0]
ILit(str) == [t |-> "ilit", v |-> Chars(str), n |-> 0]
OneOf(set) == [t |-> "set", v |-> set, n |-> 1]
Opt(set) == [t |-> "opt", v |-> set, n |-> 0]
Sp1 == [t |-> "run", v |-> Spaces, n |-> 1]
Sp0 == [t |-> "run", v |-> Spaces, n |-> 0]
Dig(k) == [t |-> "dig", v |-> Digits, n |-> k]
Run(set, k) == [t |-> "run", v |-> set, n |-> k]

\* the position after the item matched at the 0-based position p, or -1
ItemEnd(s, p, it) ==
    LET has(k) == p + k <= Len(s) /\ \A i \in 1 .. k : s[p + i] \in it.v
        greedy(r) == IF r >= it.n THEN p + r ELSE -1
    IN  IF p = -1 THEN -1
        ELSE CASE it.t = "lit" -> IF MatchAt(s, it.v, p) THEN p + Len(it.v) ELSE -1
               [] it.t = "ilit" ->
                    IF MatchAt(upper(Slice(s, 0, p + Len(it.v))), upper(it.v), p)
                    THEN p + Len(it.v) ELSE -1
               [] it.t = "set" -> IF has(1) THEN p + 1 ELSE -1
               [] it.t = "opt" -> IF has(1) THEN p + 1 ELSE p
               [] it.t = "dig" -> IF has(it.n) THEN p + it.n ELSE -1
               [] it.t = "run" -> greedy(RunLen(SubSeq(s, p + 1, Len(s)), it.v))

\* the positions after each item of the pattern matched at p (-1 from the
\* first item that fails)
RECURSIVE Ends(_, _, _)
Ends(s, p, items) ==
    LET rest(e) == <<e>> \o Ends(s, e, Tail(items))
    IN  IF items = <<>> THEN <<>> ELSE rest(ItemEnd(s, p, Head(items)))

MatchesAt(s, p, items) == Ends(s, p, items)[Len(items)] # -1

\* the start of the leftmost match at or after from, or -1
SearchFrom(s, from, items) ==
    LeastOr({p \in from .. Len(s) : MatchesAt(s, p, items)}, -1)

\* ------------------------------------------------------------------------
\* heuristics.py: h_find_fecha
\* ------------------------------------------------------------------------

\* D[ÍI]A\s+MES\s+A[ÑN]O\s+(\d{2})\s+(\d{2})\s+(\d{4})
LabelledDate ==
    << Lit("D"), OneOf({"Í", "I"}), Lit("A"), Sp1, Lit("MES"), Sp1,
       Lit("A"), OneOf({"Ñ", "N"}), Lit("O"), Sp1,
       Dig(2), Sp1, Dig(2), Sp1, Dig(4) >>

\* (\d{2})\s+(\d{2})\s+(\d{4})
BareDate == << Dig(2), Sp1, Dig(2), Sp1, Dig(4) >>

\* f"{y}-{mth}-{d}" from the positions of the three groups
FormatDate(s, d0, m0, y0) ==
    Slice(s, y0, y0 + 4) \o <<"-">> \o Slice(s, m0, m0 + 2) \o <<"-">> \o Slice(s, d0, d0 + 2)

\* BareDateScan returning the first match, whatever precedes it
RECURSIVE BareDateScan_first(_, _)
BareDateScan_first(text, from) ==
    LET match(p, e) == FormatDate(text, p, e[2], e[4])
        at(p) == IF p = -1 THEN <<>> ELSE match(p, Ends(text, p, BareDate))
    IN  at(SearchFrom(text, from, BareDate))

\* the loop over re.finditer: the matches do not overlap, the scan resumes
\* at the end of the previous match
RECURSIVE BareDateScan(_, _)
BareDateScan(text, from) ==
    LET pre(p) == Slice(text, IF p - 60 > 0 THEN p - 60 ELSE 0, p)
        match(p, e) ==
            IF ~Contains(pre(p), Chars("Impreso el"))
            THEN FormatDate(text, p, e[2], e[4])
            ELSE BareDateScan(text, e[5])
        at(p) == IF p = -1 THEN <<>> ELSE match(p, Ends(text, p, BareDate))
    IN  at(SearchFrom(text, from, BareDate))

\* h_find_fecha where the scan of the bare dates comes first
h_find_fecha_barefirst(text) ==
    LET labelled(e) == FormatDate(text, e[10], e[12], e[14])
        at(p) == IF p # -1 THEN labelled(Ends(text, p, LabelledDate)) ELSE <<>>
        first(bare) == IF bare # <<>> THEN bare ELSE at(SearchFrom(text, 0, LabelledDate))
    IN  first(BareDateScan(text, 0))

h_find_fecha(text) ==
    LET labelled(e) == FormatDate(text, e[10], e[12], e[14])
        at(p) == IF p # -1 THEN labelled(Ends(text, p, LabelledDate))
                 ELSE BareDateScan(text, 0)
    IN  at(SearchFrom(text, 0, LabelledDate))

\* ------------------------------------------------------------------------
\* heuristics.py: h_find_tipo_examen, h_find_cargo, h_find_concepto
\* ------------------------------------------------------------------------

\* the end of the line that holds position p: where .*$ stops under re.M
LineEnd(s, p) ==
    LET line_end(k) == IF k = -1 THEN Len(s) ELSE p + k
    IN  line_end(find(SubSeq(s, p + 1, Len(s)), <<"\n">>))

\* EVALUACI[ÓO]N?\s*M[ÉE]DICO\s*OCUPACIONAL under re.I
TipoExamen ==
    << ILit("EVALUACI"), OneOf({"Ó", "O", "ó", "o"}), Opt({"N", "n"}), Sp0,
       ILit("M"), OneOf({"É", "E", "é", "e"}), ILit("DICO"), Sp0,
       ILit("OCUPACIONAL") >>

h_find_tipo_examen(text) ==
    LET at(p) ==
            IF p = -1 THEN <<>>
            ELSE normalize_spaces(
                     Slice(text, p, LineEnd(text, Ends(text, p, TipoExamen)[Len(TipoExamen)])))
    IN  at(SearchFrom(text, 0, TipoExamen))

\* str.title() of a string
title(s) ==
    [i \in 1 .. Len(s) |->
        IF i > 1 /\ s[i - 1] \in AllUpper \cup AllLower
        THEN LowerChar(s[i]) ELSE UpperChar(s[i])]

\* \s*\n([class]{min,}) at position p: <<start, end>> of the group, or <<>>.
\* \s* is greedy and gives characters back until a "\n" follows it and the
\* group matches after that "\n".
AfterNewline(s, p, class, min) ==
    LET \* the length of the group at the position g
        group(g) == RunLen(SubSeq(s, g + 1, Len(s)), class)
        \* the match when \s* keeps j characters
        at(j) == IF j = -1 THEN <<>> ELSE <<p + j + 1, p + j + 1 + group(p + j + 1)>>
    IN  at(GreatestOr({j \in 0 .. RunLen(SubSeq(s, p + 1, Len(s)), Spaces) - 1 :
                          s[p + j + 1] = "\n" /\ group(p + j + 1) >= min}, -1))

\* ^Cargo\s*\n([A-Za-zÁÉÍÓÚÑ ]{3,}) under re.M: the group of the leftmost match
CargoLabelled(text) ==
    LET at(p) ==
            IF p # -1 /\ (p = 0 \/ text[p] = "\n") /\ MatchAt(text, Chars("Cargo"), p)
            THEN AfterNewline(text, p + 5,
                              AsciiUpper \cup AsciiLower \cup AllUpper \cup {" "}, 3)
            ELSE <<>>
    IN  at(LeastOr({p \in 0 .. Len(text) : at(p) # <<>>}, -1))

\* \n([A-ZÁÉÍÓÚÑ ]{3,})\nNIT\b: the group of the leftmost match
CargoBeforeNit(text) ==
    LET group(p, r) ==
            IF /\ r >= 3
               /\ MatchAt(text, Chars("\nNIT"), p + 1 + r)
               /\ Boundary(text, p + 1 + r + 4)
            THEN <<p + 1, p + 1 + r>> ELSE <<>>
        at(p) ==
            IF p # -1 /\ p < Len(text) /\ text[p + 1] = "\n"
            THEN group(p, RunLen(SubSeq(text, p + 2, Len(text)), NameClass))
            ELSE <<>>
    IN  at(LeastOr({p \in 0 .. Len(text) : at(p) # <<>>}, -1))

h_find_cargo(text) ==
    LET value(m) == title(normalize_spaces(Slice(text, m[1], m[2])))
        second(m2) == IF m2 # <<>> THEN value(m2) ELSE <<>>
        first(m) == IF m # <<>> THEN value(m) ELSE second(CargoBeforeNit(text))
    IN  first(CargoLabelled(text))

\* CONCEPTO DE APTITUD OCUPACIONAL\s*\n([A-ZÁÉÍÓÚÑ .\-]+)
h_find_concepto(text) ==
    LET key == Chars("CONCEPTO DE APTITUD OCUPACIONAL")
        at(p) == IF MatchAt(text, key, p)
                 THEN AfterNewline(text, p + Len(key), NameClass \cup {".", "-"}, 1)
                 ELSE <<>>
        value(m) ==
            IF m = <<>> THEN <<>>
            ELSE title(normalize_spaces(Slice(text, m[1], m[2])))
    IN  value(at(LeastOr({p \in 0 .. Len(text) : at(p) # <<>>}, -1)))

\* ------------------------------------------------------------------------
\* heuristics.py: h_find_block and its four instances
\* ------------------------------------------------------------------------

BlockWindow == 1200

\* the bullet U+2022, a character the string literals of the model cannot hold
Bullet == "<U+2022>"

\* the loop over stop_keys: each key cuts what the previous keys left
RECURSIVE CutAtStops(_, _)
CutAtStops(sub, stop_keys) ==
    LET cut_at(cut) ==
            CutAtStops(IF cut # -1 THEN Slice(sub, 0, cut) ELSE sub, Tail(stop_keys))
    IN  IF stop_keys = <<>> THEN sub ELSE cut_at(find(sub, Head(stop_keys)))

h_find_block(text, start_key, stop_keys) ==
    LET cleaned(raw) ==
            [i \in 1 .. Len(raw) |->
                normalize_spaces(strip_chars(raw[i], {" ", "-", Bullet, "\t"}))]
        from(key_idx) ==
            IF key_idx = -1 THEN <<>>
            ELSE join(Chars("; "),
                      SelectSeq(cleaned(splitlines(
                                    CutAtStops(Slice(text, key_idx + Len(start_key),
                                                     key_idx + Len(start_key) + BlockWindow),
                                               stop_keys))),
                                LAMBDA l : l # <<>>))
    IN  from(find(text, start_key))

h_find_examenes(text) ==
    h_find_block(text, Chars("El concepto de Aptitud se definió a part"),
                 << Chars("RECOMENDACIONES MÉDICAS"), Chars("RECOMENDACIONES OCUPACIONALES"),
                    Chars("HABITOS Y ESTILO"), Chars("OTRAS OBSERVACIONES"),
                    Chars("Consentimiento informado") >>)

h_find_reco_medicas(text) ==
    h_find_block(text, Chars("RECOMENDACIONES MÉDICAS"),
                 << Chars("RECOMENDACIONES OCUPACIONALES"), Chars("HABITOS Y ESTILO"),
                    Chars("OTRAS OBSERVACIONES"), Chars("Consentimiento informado") >>)

h_find_reco_ocup(text) ==
    h_find_block(text, Chars("RECOMENDACIONES OCUPACIONALES"),
                 << Chars("HABITOS Y ESTILO"), Chars("OTRAS OBSERVACIONES"),
                    Chars("Consentimiento informado") >>)

h_find_habitos(text) ==
    h_find_block(text, Chars("HABITOS Y ESTILO DE VIDA SALUDABLES"),
                 << Chars("OTRAS OBSERVACIONES"), Chars("Consentimiento informado") >>)

\* ------------------------------------------------------------------------
\* worker.py: FieldRule, the user patterns, the resolution of one field
\* ------------------------------------------------------------------------

FieldRule(name, pattern) == [name |-> Chars(name), pattern |-> Chars(pattern)]

\* The user patterns of the model are the regular expressions made of
\* letters, digits, spaces and parentheses: a literal with capturing groups.

\* the nesting depth after each character of the pattern
ParenDepth(pattern, i) ==
    Cardinality({j \in 1 .. i : pattern[j] = "("})
        - Cardinality({j \in 1 .. i : pattern[j] = ")"})

\* re.compile(pattern, re.I | re.S) does not raise re.error
PatternCompiles(pattern) ==
    /\ \A i \in 1 .. Len(pattern) : ParenDepth(pattern, i) >= 0
    /\ ParenDepth(pattern, Len(pattern)) = 0

\* the number of literal characters among the first i characters of the pattern
LiteralsBefore(pattern, i) ==
    Cardinality({j \in 1 .. i : pattern[j] \notin {"(", ")"}})

\* pat.search(text) and the value taken from the match:
\* [matched |-> FALSE] or [matched |-> TRUE, val |-> group(1) or group(0)]
PatternSearch(pattern, text) ==
    LET literal == SelectSeq(pattern, LAMBDA c : c \notin {"(", ")"})
        \* the ")" that closes the "(" at the position a
        closing(a) ==
            Least({i \in a + 1 .. Len(pattern) :
                      pattern[i] = ")" /\ ParenDepth(pattern, i) = ParenDepth(pattern, a) - 1})
        \* group(1) when the pattern has a group, its "(" at a, else group(0)
        value(p, a) ==
            IF a = 0 THEN Slice(text, p, p + Len(literal))
            ELSE Slice(text, p + LiteralsBefore(pattern, a),
                       p + LiteralsBefore(pattern, closing(a)))
        at(p) ==
            IF p = -1 THEN [matched |-> FALSE, val |-> <<>>]
            ELSE [matched |-> TRUE,
                  val |-> value(p, LeastOr({i \in 1 .. Len(pattern) : pattern[i] = "("}, 0))]
    IN  at(find(lower(text), lower(literal)))

StartsWith(s, prefix) == MatchAt(s, Chars(prefix), 0)

\* Extractor comparing the trimmed name as it is written, not lower-cased
Extractor_nolower(name) ==
    LET of(key) ==
            IF StartsWith(key, "fecha de realiz") THEN "h_find_fecha"
            ELSE IF StartsWith(key, "tipo de ex") THEN "h_find_tipo_examen"
            ELSE IF key = Chars("apellidos y nombres") THEN "h_find_nombre"
            ELSE IF StartsWith(key, "documento") THEN "h_find_doc"
            ELSE IF key = Chars("cargo") THEN "h_find_cargo"
            ELSE IF StartsWith(key, "concepto de aptitud") THEN "h_find_concepto"
            ELSE IF StartsWith(key, "exámenes practicados") THEN "h_find_examenes"
            ELSE IF StartsWith(key, "recomendaciones m") THEN "h_find_reco_medicas"
            ELSE IF StartsWith(key, "recomendaciones o") THEN "h_find_reco_ocup"
            ELSE IF StartsWith(key, "hábitos") \/ StartsWith(key, "habitos")
                 THEN "h_find_habitos"
            ELSE "none"
    IN  of(strip(name))

\* the extractor the name table of run() selects for a field name
Extractor(name) ==
    LET of(key) ==
            IF StartsWith(key, "fecha de realiz") THEN "h_find_fecha"
            ELSE IF StartsWith(key, "tipo de ex") THEN "h_find_tipo_examen"
            ELSE IF key = Chars("apellidos y nombres") THEN "h_find_nombre"
            ELSE IF StartsWith(key, "documento") THEN "h_find_doc"
            ELSE IF key = Chars("cargo") THEN "h_find_cargo"
            ELSE IF StartsWith(key, "concepto de aptitud") THEN "h_find_concepto"
            ELSE IF StartsWith(key, "exámenes practicados") THEN "h_find_examenes"
            ELSE IF StartsWith(key, "recomendaciones m") THEN "h_find_reco_medicas"
            ELSE IF StartsWith(key, "recomendaciones o") THEN "h_find_reco_ocup"
            ELSE IF StartsWith(key, "hábitos") \/ StartsWith(key, "habitos")
                 THEN "h_find_habitos"
            ELSE "none"
    IN  of(lower(strip(name)))

\* ------------------------------------------------------------------------
\* The page texts of the runs
\* ------------------------------------------------------------------------

\* a page of a certificate
TextCert ==
    Chars("DÍA MES AÑO 15 08 2023\nDATOS DEL TRABAJADOR\nApellidos y Nombres\nJUAN PEREZ\nCC 12345\nCargo\nOPERARIO\nNIT 900\nclave 77")

\* a page with another worker, without labels
TextOther ==
    Chars("Impreso el 01 01 2020\nDATOS DEL TRABAJADOR / ASPIRANTE\nANA DIAZ TI 98765\nEPS SURA\n20 03 2024")

\* a scanned page: only white space
TextBlank == Chars(" \n ")

\* a page of a certificate with every section of the template
TextFull ==
    Chars("DÍA MES AÑO 15 08 2023\nEVALUACIÓN MÉDICO OCUPACIONAL INGRESO\nDATOS DEL TRABAJADOR / ASPIRANTE\nApellidos y Nombres\nJUAN PEREZ\nCC 12345\nCargo\nMENSAJERO\nNIT 900\nCONCEPTO DE APTITUD OCUPACIONAL\nAPTO\nEl concepto de Aptitud se definió a part\nAUDIOMETRIA\nRECOMENDACIONES MÉDICAS\nCONTROL ANUAL\nRECOMENDACIONES OCUPACIONALES\nPAUSAS ACTIVAS\nHABITOS Y ESTILO DE VIDA SALUDABLES\nEJERCICIO\nOTRAS OBSERVACIONES")

\* the value of each extractor on one text: what the branch of run() that
\* selects the extractor assigns to val
ExtractorRow(text) ==
    LET row(nombre_y_doc) ==
            [ h_find_fecha |-> h_find_fecha(text),
              h_find_tipo_examen |-> h_find_tipo_examen(text),
              h_find_nombre |-> nombre_y_doc[1],
              h_find_doc |-> nombre_y_doc[2],
              h_find_cargo |-> h_find_cargo(text),
              h_find_concepto |-> h_find_concepto(text),
              h_find_examenes |-> h_find_examenes(text),
              h_find_reco_medicas |-> h_find_reco_medicas(text),
              h_find_reco_ocup |-> h_find_reco_ocup(text),
              h_find_habitos |-> h_find_habitos(text),
              none |-> <<>> ]
    IN  row(h_find_nombre_y_doc(text))

\* the extractors on the page texts of the runs, evaluated once for all the
\* runs
ExtractorTable ==
    (TextCert :> ExtractorRow(TextCert))
        @@ (TextOther :> ExtractorRow(TextOther))
        @@ (TextBlank :> ExtractorRow(TextBlank))
        @@ (TextFull :> ExtractorRow(TextFull))

\* the call of the extractor on a page text
CallExtractor(extractor, text) == ExtractorTable[text][extractor]

\* the patterns of the rules of the runs
PatternCargo == Chars("cargo")
PatternClave == Chars("clave (77)")
PatternJuan == Chars("juan (perez)")

\* the searches of those patterns on one text
PatternRow(text) ==
    (PatternCargo :> PatternSearch(PatternCargo, text))
        @@ (PatternClave :> PatternSearch(PatternClave, text))
        @@ (PatternJuan :> PatternSearch(PatternJuan, text))

\* the searches on the page texts, computed once
PatternTable ==
    (TextCert :> PatternRow(TextCert))
        @@ (TextOther :> PatternRow(TextOther))
        @@ (TextBlank :> PatternRow(TextBlank))

\* pat.search(text) for the compiled pattern pat
pat_search(pattern, text) == PatternTable[text][pattern]

\* ------------------------------------------------------------------------
\* worker.py: the run
\* ------------------------------------------------------------------------

\* None, the entry of compiled for a rule without pattern; a compiled pattern
\* is never empty
None == <<>>

\* d[k] = v on a dict
DictSet(d, k, v) == (k :> v) @@ d

\* CompileRules keeping the entry of the first rule of a name
RECURSIVE CompileRules_keepfirst(_, _, _)
CompileRules_keepfirst(rules, k, compiled_so_far) ==
    IF k > Len(rules) THEN [error |-> 0, compiled |-> compiled_so_far]
    ELSE IF rules[k].pattern # <<>> /\ ~PatternCompiles(rules[k].pattern)
         THEN [error |-> k, compiled |-> compiled_so_far]
    ELSE CompileRules_keepfirst(rules, k + 1,
             IF rules[k].name \in DOMAIN compiled_so_far THEN compiled_so_far
             ELSE DictSet(compiled_so_far, rules[k].name,
                          IF rules[k].pattern # <<>> THEN rules[k].pattern ELSE None))

\* the loop that fills compiled, stopped at the first pattern that does not
\* compile: [error |-> index of the failing rule or 0, compiled |-> the dict]
RECURSIVE CompileRules(_, _, _)
CompileRules(rules, k, compiled_so_far) ==
    IF k > Len(rules) THEN [error |-> 0, compiled |-> compiled_so_far]
    ELSE IF rules[k].pattern # <<>> /\ ~PatternCompiles(rules[k].pattern)
         THEN [error |-> k, compiled |-> compiled_so_far]
    ELSE CompileRules(rules, k + 1,
                      DictSet(compiled_so_far, rules[k].name,
                              IF rules[k].pattern # <<>> THEN rules[k].pattern ELSE None))

\* the body of the loop over self.fields for one rule: the value of val
ResolveField(fr, compiled_dict, text, heuristics) ==
    LET group(m) == IF m.matched THEN normalize_spaces(m.val) ELSE <<>>
        with(pat) ==
            IF pat # None THEN group(pat_search(pat, text))
            ELSE IF heuristics THEN CallExtractor(Extractor(fr.name), text)
            ELSE <<>>
    IN  with(compiled_dict[fr.name])

\* the body of the loop over self.fields for one rule: the extractor it
\* invokes, "none" when it invokes none
ResolveCalls(fr, compiled_dict, heuristics) ==
    IF compiled_dict[fr.name] # None THEN "none"
    ELSE IF heuristics THEN Extractor(fr.name)
    ELSE "none"

PaginaPDF == Chars("Página PDF")

\* what the loop over the rules computes on one page, rule by rule: the
\* value assigned to row[fr.name] and the extractor invoked for it
PageResolution(rules, compiled_dict, text, heuristics) ==
    [k \in 1 .. Len(rules) |->
        [val |-> ResolveField(rules[k], compiled_dict, text, heuristics),
         called |-> ResolveCalls(rules[k], compiled_dict, heuristics)]]

\* row[fr.name] = val for the rules k, k + 1, ... in this order
RECURSIVE FillRow(_, _, _, _)
FillRow(row, rules, k, resolution) ==
    IF k > Len(rules) THEN row
    ELSE FillRow(DictSet(row, rules[k].name, resolution[k].val),
                 rules, k + 1, resolution)

\* the row of the page page_idx: the values of the rules, then the page number
PageRow(rules, resolution, with_page, page_idx) ==
    LET numbered(row) == IF with_page THEN DictSet(row, PaginaPDF, page_idx + 1) ELSE row
    IN  numbered(FillRow(<<>>, rules, 1, resolution))

\* ------------------------------------------------------------------------
\* worker.py: ExtractWorker
\* ------------------------------------------------------------------------

VARIABLES
    \* the arguments of the constructor and the two external collaborators
    pdf_ok,                     \* fitz.open(self.pdf_path) succeeds
    doc,                        \* the text of each page of the document
    fields,
    use_template_heuristics,
    max_pages,
    include_pdf_page,
    \* the worker
    _cancel,
    pc,                         \* the position of run()
    total_pages,
    compiled,
    idx,
    textless_pages,
    last_emit,
    data_rows,
    \* what the run did, in order
    emitted,                    \* the notifications: progress, finished, error
    extracted,                  \* the page indices handed to extract_text_from_page
    resolved,                   \* per page and rule: the value and the extractor invoked
    writes,                     \* the invocations of the spreadsheet writer
    \* the application of one extractor to one text
    h_fn,
    h_text,
    h_out,
    h_done,
    \* the main window, as far as the worker it started is concerned
    window

inputs == <<pdf_ok, doc, fields, use_template_heuristics, max_pages, include_pdf_page>>
locals == <<total_pages, compiled, idx, textless_pages, last_emit, data_rows>>
observed == <<emitted, extracted, resolved, writes>>
hvars == <<h_fn, h_text, h_out, h_done, window>>
vars == <<inputs, _cancel, pc, locals, observed, hvars>>

Min(a, b) == IF a < b THEN a ELSE b
Max(a, b) == IF a > b THEN a ELSE b

Progress(pct, kind, arg) == [sig |-> "progress", pct |-> pct, kind |-> kind, arg |-> arg]
Finished == [sig |-> "finished", pct |-> 0, kind |-> "path", arg |-> 0]
Error(kind, arg) == [sig |-> "error", pct |-> 0, kind |-> kind, arg |-> arg]

\* __init__: the state of a worker that was constructed and not started
WorkerInit ==
    /\ _cancel = FALSE
    /\ pc = "idle"
    /\ total_pages = 0
    /\ compiled = <<>>
    /\ idx = 0
    /\ textless_pages = 0
    /\ last_emit = 0
    /\ data_rows = <<>>
    /\ emitted = <<>>
    /\ extracted = <<>>
    /\ resolved = <<>>
    /\ writes = <<>>

\* ui.py, MainWindow.__init__ and _setup_ui: the Start button enabled, the
\* Cancel button disabled, no notification handled, no message box open, no
\* later worker started
MainWindowInit ==
    [ btn_start |-> TRUE, btn_cancel |-> FALSE, delivered |-> 0, dialog |-> FALSE,
      later_start |-> "none", late_progress |-> 0 ]

\* no extractor is applied on its own in the specifications of the worker
NoHeuristicCall ==
    /\ h_fn = "none"
    /\ h_text = <<>>
    /\ h_out = <<>>
    /\ h_done = TRUE
    /\ window = MainWindowInit

\* QThread.start(): run() begins
Start ==
    /\ pc = "idle"
    /\ pc' = "open"
    /\ UNCHANGED <<inputs, _cancel, locals, observed, hvars>>

\* cancel()
cancel ==
    /\ ~_cancel
    /\ _cancel' = TRUE
    /\ UNCHANGED <<inputs, pc, locals, observed, hvars>>

\* OpenDocument with the page cap taken as the number of pages
OpenDocument_uncapped ==
    /\ pc = "open"
    /\ IF ~pdf_ok
       THEN /\ emitted' = Append(emitted, Error("open", 0))
            /\ pc' = "done"
            /\ UNCHANGED <<total_pages, data_rows>>
       ELSE /\ total_pages' = Len(doc)
            /\ data_rows' = <<>>
            /\ pc' = "compile"
            /\ UNCHANGED emitted
    /\ UNCHANGED <<inputs, _cancel, compiled, idx, textless_pages, last_emit,
                   extracted, resolved, writes, hvars>>

\* OpenDocument taking max_pages as the cap whatever its sign
OpenDocument_rawcap ==
    /\ pc = "open"
    /\ IF ~pdf_ok
       THEN /\ emitted' = Append(emitted, Error("open", 0))
            /\ pc' = "done"
            /\ UNCHANGED <<total_pages, data_rows>>
       ELSE /\ total_pages' = Min(Len(doc), max_pages)
            /\ data_rows' = <<>>
            /\ pc' = "compile"
            /\ UNCHANGED emitted
    /\ UNCHANGED <<inputs, _cancel, compiled, idx, textless_pages, last_emit,
                   extracted, resolved, writes, hvars>>

\* run(): fitz.open and total_pages
OpenDocument ==
    /\ pc = "open"
    /\ IF ~pdf_ok
       THEN /\ emitted' = Append(emitted, Error("open", 0))
            /\ pc' = "done"
            /\ UNCHANGED <<total_pages, data_rows>>
       ELSE /\ total_pages' = Min(Len(doc), IF max_pages > 0 THEN max_pages ELSE Len(doc))
            /\ data_rows' = <<>>
            /\ pc' = "compile"
            /\ UNCHANGED emitted
    /\ UNCHANGED <<inputs, _cancel, compiled, idx, textless_pages, last_emit,
                   extracted, resolved, writes, hvars>>

\* CompilePatterns without the return after the error notification
CompilePatterns_noreturn ==
    /\ pc = "compile"
    /\ LET r == CompileRules(fields, 1, <<>>)
       IN  /\ emitted' = IF r.error # 0 THEN Append(emitted, Error("regex", r.error))
                                         ELSE emitted
           /\ compiled' = [n \in {fields[k].name : k \in 1 .. Len(fields)} |->
                              IF n \in DOMAIN r.compiled THEN r.compiled[n] ELSE None]
    /\ textless_pages' = 0
    /\ last_emit' = 0
    /\ idx' = 0
    /\ pc' = "loop"
    /\ UNCHANGED <<inputs, _cancel, total_pages, data_rows,
                   extracted, resolved, writes, hvars>>

\* run(): the loop that compiles the patterns
CompilePatterns ==
    /\ pc = "compile"
    /\ LET r == CompileRules(fields, 1, <<>>)
       IN  IF r.error # 0
           THEN /\ emitted' = Append(emitted, Error("regex", r.error))
                /\ pc' = "done"
                /\ UNCHANGED <<compiled, textless_pages, last_emit, idx>>
           ELSE /\ compiled' = r.compiled
                /\ textless_pages' = 0
                /\ last_emit' = 0
                /\ idx' = 0
                /\ pc' = "loop"
                /\ UNCHANGED emitted
    /\ UNCHANGED <<inputs, _cancel, total_pages, data_rows,
                   extracted, resolved, writes, hvars>>

\* CheckCancel leaving the loop instead of returning
CheckCancel_break ==
    /\ pc = "loop"
    /\ idx < total_pages
    /\ IF _cancel
       THEN /\ emitted' = Append(emitted, Error("cancel", 0))
            /\ pc' = "write"
       ELSE /\ pc' = "page"
            /\ UNCHANGED emitted
    /\ UNCHANGED <<inputs, _cancel, locals, extracted, resolved, writes, hvars>>

\* run(): the head of the page loop and the cancellation check
CheckCancel ==
    /\ pc = "loop"
    /\ idx < total_pages
    /\ IF _cancel
       THEN /\ emitted' = Append(emitted, Error("cancel", 0))
            /\ pc' = "done"
       ELSE /\ pc' = "page"
            /\ UNCHANGED emitted
    /\ UNCHANGED <<inputs, _cancel, locals, extracted, resolved, writes, hvars>>

\* ProcessPage counting a page as textless only when its text is empty
ProcessPage_rawblank ==
    /\ pc = "page"
    /\ extracted' = Append(extracted, idx)
    /\ textless_pages' = IF doc[idx + 1] = <<>> THEN textless_pages + 1
                                     ELSE textless_pages
    /\ LET fill(resolution) ==
               /\ resolved' = Append(resolved, resolution)
               /\ data_rows' = Append(data_rows,
                                      PageRow(fields, resolution, include_pdf_page, idx))
       IN  fill(PageResolution(fields, compiled, doc[idx + 1],
                               use_template_heuristics))
    /\ LET emit(pct) ==
              IF pct # last_emit
              THEN /\ last_emit' = pct
                   /\ emitted' = Append(emitted, Progress(pct, "page", idx + 1))
              ELSE UNCHANGED <<last_emit, emitted>>
       IN  emit(((idx + 1) * 100) \div total_pages)
    /\ idx' = idx + 1
    /\ pc' = "loop"
    /\ UNCHANGED <<inputs, _cancel, total_pages, compiled, writes, hvars>>

\* ProcessPage emitting the progress of every page
ProcessPage_everypage ==
    /\ pc = "page"
    /\ extracted' = Append(extracted, idx)
    /\ textless_pages' = IF strip(doc[idx + 1]) = <<>> THEN textless_pages + 1
                                     ELSE textless_pages
    /\ LET fill(resolution) ==
               /\ resolved' = Append(resolved, resolution)
               /\ data_rows' = Append(data_rows,
                                      PageRow(fields, resolution, include_pdf_page, idx))
       IN  fill(PageResolution(fields, compiled, doc[idx + 1],
                               use_template_heuristics))
    /\ LET emit(pct) ==
              /\ last_emit' = pct
              /\ emitted' = Append(emitted, Progress(pct, "page", idx + 1))
       IN  emit(((idx + 1) * 100) \div total_pages)
    /\ idx' = idx + 1
    /\ pc' = "loop"
    /\ UNCHANGED <<inputs, _cancel, total_pages, compiled, writes, hvars>>

\* ProcessPage keeping the text of the previous page when a page has none
ProcessPage_carryover ==
    /\ pc = "page"
    /\ extracted' = Append(extracted, idx)
    /\ textless_pages' = IF strip(doc[idx + 1]) = <<>> THEN textless_pages + 1
                                     ELSE textless_pages
    /\ LET fill(resolution) ==
               /\ resolved' = Append(resolved, resolution)
               /\ data_rows' = Append(data_rows,
                                      PageRow(fields, resolution, include_pdf_page, idx))
       IN  fill(PageResolution(fields, compiled, IF strip(doc[idx + 1]) = <<>> /\ idx > 0
                               THEN doc[idx] ELSE doc[idx + 1],
                               use_template_heuristics))
    /\ LET emit(pct) ==
              IF pct # last_emit
              THEN /\ last_emit' = pct
                   /\ emitted' = Append(emitted, Progress(pct, "page", idx + 1))
              ELSE UNCHANGED <<last_emit, emitted>>
       IN  emit(((idx + 1) * 100) \div total_pages)
    /\ idx' = idx + 1
    /\ pc' = "loop"
    /\ UNCHANGED <<inputs, _cancel, total_pages, compiled, writes, hvars>>

\* ProcessPage comparing with a last_emit that it never updates
ProcessPage_nolast ==
    /\ pc = "page"
    /\ extracted' = Append(extracted, idx)
    /\ textless_pages' = IF strip(doc[idx + 1]) = <<>> THEN textless_pages + 1
                                     ELSE textless_pages
    /\ LET fill(resolution) ==
               /\ resolved' = Append(resolved, resolution)
               /\ data_rows' = Append(data_rows,
                                      PageRow(fields, resolution, include_pdf_page, idx))
       IN  fill(PageResolution(fields, compiled, doc[idx + 1],
                               use_template_heuristics))
    /\ LET emit(pct) ==
              IF pct # last_emit
              THEN emitted' = Append(emitted, Progress(pct, "page", idx + 1))
              ELSE UNCHANGED emitted
       IN  emit(((idx + 1) * 100) \div total_pages)
    /\ UNCHANGED last_emit
    /\ idx' = idx + 1
    /\ pc' = "loop"
    /\ UNCHANGED <<inputs, _cancel, total_pages, compiled, writes, hvars>>

\* ProcessPage appending no row for a page without text
ProcessPage_skipblank ==
    /\ pc = "page"
    /\ extracted' = Append(extracted, idx)
    /\ textless_pages' = IF strip(doc[idx + 1]) = <<>> THEN textless_pages + 1
                                     ELSE textless_pages
    /\ LET fill(resolution) ==
               /\ resolved' = Append(resolved, resolution)
               /\ data_rows' =
                      IF strip(doc[idx + 1]) = <<>> THEN data_rows
                      ELSE Append(data_rows,
                                  PageRow(fields, resolution, include_pdf_page, idx))
       IN  fill(PageResolution(fields, compiled, doc[idx + 1],
                               use_template_heuristics))
    /\ LET emit(pct) ==
              IF pct # last_emit
              THEN /\ last_emit' = pct
                   /\ emitted' = Append(emitted, Progress(pct, "page", idx + 1))
              ELSE UNCHANGED <<last_emit, emitted>>
       IN  emit(((idx + 1) * 100) \div total_pages)
    /\ idx' = idx + 1
    /\ pc' = "loop"
    /\ UNCHANGED <<inputs, _cancel, total_pages, compiled, writes, hvars>>

\* run(): the body of the page loop after the cancellation check
ProcessPage ==
    /\ pc = "page"
    /\ extracted' = Append(extracted, idx)
    /\ textless_pages' = IF strip(doc[idx + 1]) = <<>> THEN textless_pages + 1
                                     ELSE textless_pages
    /\ LET fill(resolution) ==
               /\ resolved' = Append(resolved, resolution)
               /\ data_rows' = Append(data_rows,
                                      PageRow(fields, resolution, include_pdf_page, idx))
       IN  fill(PageResolution(fields, compiled, doc[idx + 1],
                               use_template_heuristics))
    /\ LET emit(pct) ==
              IF pct # last_emit
              THEN /\ last_emit' = pct
                   /\ emitted' = Append(emitted, Progress(pct, "page", idx + 1))
              ELSE UNCHANGED <<last_emit, emitted>>
       IN  emit(((idx + 1) * 100) \div total_pages)
    /\ idx' = idx + 1
    /\ pc' = "loop"
    /\ UNCHANGED <<inputs, _cancel, total_pages, compiled, writes, hvars>>

\* AfterLoop reading the cancel flag once more after the last page
AfterLoop_polls ==
    /\ pc = "loop"
    /\ idx >= total_pages
    /\ IF _cancel
       THEN /\ emitted' = Append(emitted, Error("cancel", 0))
            /\ pc' = "done"
       ELSE /\ emitted' = IF textless_pages > Max(3, (total_pages * 6) \div 10)
                          THEN Append(emitted, Progress(100, "warning", textless_pages))
                          ELSE emitted
            /\ pc' = "write"
    /\ UNCHANGED <<inputs, _cancel, locals, extracted, resolved, writes, hvars>>

\* run(): the end of the page loop and the warning about pages without text
AfterLoop ==
    /\ pc = "loop"
    /\ idx >= total_pages
    /\ emitted' = IF textless_pages > Max(3, (total_pages * 6) \div 10)
                  THEN Append(emitted, Progress(100, "warning", textless_pages))
                  ELSE emitted
    /\ pc' = "write"
    /\ UNCHANGED <<inputs, _cancel, locals, extracted, resolved, writes, hvars>>

\* WriteExcel with finished emitted after the handler of the exception
WriteExcel_finally ==
    /\ pc = "write"
    /\ \E ok \in BOOLEAN :
          /\ writes' = Append(writes, [rows |-> data_rows, ok |-> ok])
          /\ emitted' = IF ok THEN emitted ELSE Append(emitted, Error("write", 0))
          /\ pc' = "written"
    /\ UNCHANGED <<inputs, _cancel, locals, extracted, resolved, hvars>>

\* WriteExcel invoking the writer a second time after a first failure
WriteExcel_retry ==
    /\ pc = "write"
    /\ \E ok \in BOOLEAN :
          /\ writes' = Append(writes, [rows |-> data_rows, ok |-> ok])
          /\ IF ok
             THEN /\ pc' = "written"
                  /\ UNCHANGED emitted
             ELSE IF writes = <<>>
             THEN /\ pc' = "write"
                  /\ UNCHANGED emitted
             ELSE /\ emitted' = Append(emitted, Error("write", 0))
                  /\ pc' = "done"
    /\ UNCHANGED <<inputs, _cancel, locals, extracted, resolved, hvars>>

\* run(): the DataFrame is written; the writer succeeds or raises
WriteExcel ==
    /\ pc = "write"
    /\ \E ok \in BOOLEAN :
          /\ writes' = Append(writes, [rows |-> data_rows, ok |-> ok])
          /\ IF ok
             THEN /\ pc' = "written"
                  /\ UNCHANGED emitted
             ELSE /\ emitted' = Append(emitted, Error("write", 0))
                  /\ pc' = "done"
    /\ UNCHANGED <<inputs, _cancel, locals, extracted, resolved, hvars>>

\* run(): self.finished.emit
EmitFinished ==
    /\ pc = "written"
    /\ emitted' = Append(emitted, Finished)
    /\ pc' = "completed"
    /\ UNCHANGED <<inputs, _cancel, locals, extracted, resolved, writes, hvars>>

\* run(): the completion message
EmitCompleted ==
    /\ pc = "completed"
    /\ emitted' = Append(emitted, Progress(100, "completed", Len(data_rows)))
    /\ pc' = "done"
    /\ UNCHANGED <<inputs, _cancel, locals, extracted, resolved, writes, hvars>>

run ==
    \/ OpenDocument
    \/ CompilePatterns
    \/ CheckCancel
    \/ ProcessPage
    \/ AfterLoop
    \/ WriteExcel
    \/ EmitFinished
    \/ EmitCompleted

Next ==
    \/ Start
    \/ cancel
    \/ run

\* ------------------------------------------------------------------------
\* The inputs of the runs
\* ------------------------------------------------------------------------

\* the sequences of at most n elements of S
SeqsUpTo(S, n) == UNION {[1 .. k -> S] : k \in 0 .. n}

\* the longest document of the runs that exercise the page loop
MaxDocPages == 7

\* the rule lists of those runs: heuristics only, a user pattern, and a
\* pattern that does not compile after one that does
RunRuleLists ==
    { << FieldRule("Apellidos y Nombres", ""), FieldRule("Cargo", "") >>,
      << FieldRule("Clave", "clave (77)"), FieldRule("Documento de Identificación", "") >>,
      << FieldRule("Cargo", "cargo"), FieldRule("Clave", "clave (77"),
         FieldRule("Documento", "") >> }

InitRun ==
    /\ pdf_ok \in BOOLEAN
    /\ doc \in IF pdf_ok THEN SeqsUpTo({TextBlank, TextCert}, MaxDocPages) ELSE {<<>>}
    /\ fields \in RunRuleLists
    /\ use_template_heuristics = TRUE
    /\ include_pdf_page = TRUE
    /\ max_pages \in {3, 2000}
    /\ WorkerInit
    /\ NoHeuristicCall

Spec == InitRun /\ [][Next]_vars

\* ------------------------------------------------------------------------
\* Properties of the run
\* ------------------------------------------------------------------------

Count(sig) == Cardinality({i \in 1 .. Len(emitted) : emitted[i].sig = sig})

Cancelled == \E i \in 1 .. Len(emitted) : emitted[i] = Error("cancel", 0)

\* C1: when the cancel flag is set at the check made before a page, that
\* step ends the run as Cancelled: the "cancelled by user" error is the only
\* error and no finished was or will be emitted, the writer was not and will
\* not be invoked, so none of the rows accumulated so far is written; a run
\* that has returned does nothing more.
C1_CancellationDiscardsPartialWork ==
    [][ /\ (pc = "loop" /\ idx < total_pages /\ _cancel /\ pc' # pc)
            => /\ pc' = "done"
               /\ emitted' = Append(emitted, Error("cancel", 0))
               /\ \A i \in 1 .. Len(emitted) : emitted[i].sig = "progress"
               /\ Len(data_rows') = idx
               /\ writes' = <<>>
        /\ pc = "done" => (pc' = "done" /\ emitted' = emitted /\ writes' = writes)
      ]_vars

\* a run cancelled after two pages of a longer document
C1_Witness ==
    /\ pc = "done"
    /\ Cancelled
    /\ Len(data_rows) = 2
    /\ total_pages > 2
    /\ writes = <<>>

\* the run has a fatal setup error: the document does not open, or a rule
\* has a non-empty pattern that does not compile
FatalSetup ==
    \/ ~pdf_ok
    \/ \E k \in 1 .. Len(fields) :
          fields[k].pattern # <<>> /\ ~PatternCompiles(fields[k].pattern)

\* C2: a run with a fatal setup error never enters the page loop: no page
\* text is extracted, no row is produced, the writer is not invoked, no
\* finished is emitted, and when run() has returned exactly one
\* notification, an error, has been emitted.
C2_FatalSetupProcessesNothing ==
    FatalSetup =>
        /\ pc \in {"idle", "open", "compile", "done"}
        /\ extracted = <<>>
        /\ data_rows = <<>>
        /\ writes = <<>>
        /\ Count("finished") = 0
        /\ Count("progress") = 0
        /\ Count("error") = (IF pc = "done" THEN 1 ELSE 0)

\* a document of several pages that opens, with a second rule whose pattern
\* does not compile: the run has returned after the error
C2_Witness ==
    /\ pc = "done"
    /\ pdf_ok
    /\ Len(doc) > 1
    /\ emitted = <<Error("regex", 2)>>

\* C4: for a positive max_pages, total_pages = min(page_count, max_pages);
\* the pages whose text is extracted are 0, 1, 2, ... in this order, each
\* once and none with an index >= total_pages; a run that reaches the
\* write has extracted exactly the pages 0 .. total_pages - 1, and its
\* completion message reports total_pages rows.
C4_PageCap ==
    (pdf_ok /\ max_pages > 0 /\ pc \notin {"idle", "open"}) =>
        /\ total_pages = Min(Len(doc), max_pages)
        /\ extracted = [i \in 1 .. Len(extracted) |-> i - 1]
        /\ Len(extracted) <= total_pages
        /\ pc \in {"write", "written", "completed"} => Len(extracted) = total_pages
        /\ Count("finished") = 1 => Len(extracted) = total_pages
        /\ \A i \in 1 .. Len(emitted) :
              emitted[i].kind = "completed" => emitted[i].arg = total_pages

\* a completed run on a document longer than the cap
C4_Witness ==
    /\ pc = "done"
    /\ max_pages > 0
    /\ Len(doc) > max_pages
    /\ Count("finished") = 1
    /\ emitted[Len(emitted)] = Progress(100, "completed", max_pages)

\* the pages of the run whose trimmed text is empty
BlankCount == Cardinality({i \in 1 .. total_pages : strip(doc[i]) = <<>>})

Warnings == {i \in 1 .. Len(emitted) : emitted[i].kind = "warning"}

\* C9: in a run that is not cancelled, after the page loop the warning is
\* emitted, once and at 100%, if and only if the number of pages whose
\* trimmed text is empty exceeds max(3, 0.6 * total_pages); no warning is
\* emitted before the end of the loop; with or without the warning the
\* writer is invoked with all the total_pages rows.
C9_TextlessWarning ==
    /\ pc \in {"idle", "open", "compile", "loop", "page"} => Warnings = {}
    /\ Cancelled => Warnings = {}
    /\ (pc \in {"write", "written", "completed"} \/ writes # <<>>) =>
          /\ Warnings # {} <=> (BlankCount > 3 /\ 10 * BlankCount > 6 * total_pages)
          /\ Cardinality(Warnings) <= 1
          /\ \A i \in Warnings : emitted[i].sig = "progress" /\ emitted[i].pct = 100
    /\ pc \in {"written", "completed"} => writes # <<>>
    /\ writes # <<>> =>
          /\ Len(writes) = 1
          /\ writes[1].rows = data_rows
          /\ Len(writes[1].rows) = total_pages

\* a completed run whose document has five blank pages out of seven
C9_Witness ==
    /\ pc = "done"
    /\ total_pages = 7
    /\ BlankCount = 5
    /\ Warnings # {}
    /\ Count("finished") = 1
    /\ Len(writes[1].rows) = 7

\* ------------------------------------------------------------------------
\* The run under the scheduling of its thread
\* ------------------------------------------------------------------------

\* the longest document of these runs
MaxLivePages == 2

InitLive ==
    /\ pdf_ok \in BOOLEAN
    /\ doc \in IF pdf_ok THEN SeqsUpTo({TextBlank, TextCert}, MaxLivePages) ELSE {<<>>}
    /\ fields \in RunRuleLists
    /\ use_template_heuristics = TRUE
    /\ include_pdf_page = TRUE
    /\ max_pages \in {1, 2000}
    /\ WorkerInit
    /\ NoHeuristicCall

\* a started thread executes run() until it returns
SpecLive == InitLive /\ [][Next]_vars /\ WF_vars(run)

TerminalCount == Count("finished") + Count("error")

\* C5: every started run eventually returns and stays returned, and it
\* signals its end with exactly one terminal notification: no run emits
\* two of finished and error, and a run that has returned has emitted one.
C5_RunStateMachine ==
    /\ [](pc # "idle" => <>[](pc = "done"))
    /\ [](TerminalCount <= 1)
    /\ [](pc = "done" => TerminalCount = 1)
    /\ [](pc \notin {"done", "completed"} => TerminalCount = 0)

\* a run on a document without pages has completed
C5_Witness ==
    /\ pc = "done"
    /\ pdf_ok
    /\ doc = <<>>
    /\ writes = << [rows |-> <<>>, ok |-> TRUE] >>
    /\ emitted = << Finished, Progress(100, "completed", 0) >>

\* ------------------------------------------------------------------------
\* Runs on long documents
\* ------------------------------------------------------------------------

\* the longest of the long documents
MaxBigPages == 104

InitBig ==
    /\ pdf_ok = TRUE
    /\ doc \in {[i \in 1 .. n |-> t] : n \in 0 .. MaxBigPages, t \in {TextBlank, TextCert}}
    /\ fields = << FieldRule("Cargo", "") >>
    /\ use_template_heuristics = TRUE
    /\ include_pdf_page = TRUE
    /\ max_pages = 2000
    /\ WorkerInit
    /\ NoHeuristicCall

SpecBig == InitBig /\ [][Next]_vars

ProgressAt == {i \in 1 .. Len(emitted) : emitted[i].sig = "progress"}

PageProgressAt == {i \in ProgressAt : emitted[i].kind = "page"}

\* C6 as the specification states it: the percentages of the progress
\* notifications of a run are non-decreasing and no value, 100 included, is
\* carried by two of them.
C6_ProgressValuesUnique ==
    \A i, j \in ProgressAt : i < j => emitted[i].pct < emitted[j].pct

\* C6, amended: the percentages of the progress notifications of a run are
\* non-decreasing; the notifications of the pages come in page order and no
\* two of them carry the same value; the only value carried more than once
\* is 100, by the notification of the last page and again by the warning,
\* if any, and by the completion message.
C6_ProgressValuesUniqueBelow100 ==
    /\ \A i, j \in ProgressAt : i < j => emitted[i].pct <= emitted[j].pct
    /\ \A i, j \in PageProgressAt :
          i < j => emitted[i].pct < emitted[j].pct /\ emitted[i].arg < emitted[j].arg
    /\ \A i, j \in ProgressAt :
          (i < j /\ emitted[i].pct = emitted[j].pct) =>
              /\ emitted[i].pct = 100
              /\ emitted[j].kind \in {"warning", "completed"}
    /\ \A i \in ProgressAt \ PageProgressAt :
          /\ emitted[i].pct = 100
          /\ idx = total_pages
          /\ \A j \in ProgressAt \ PageProgressAt :
                emitted[j].kind = emitted[i].kind => j = i

\* a run on a document of more than 100 pages where 100 is carried by the
\* last page, by the warning and by the completion message
C6_Witness ==
    /\ pc = "done"
    /\ total_pages > 100
    /\ Cardinality({i \in ProgressAt : emitted[i].pct = 100}) = 3
    /\ Cardinality(PageProgressAt) = 100

\* ------------------------------------------------------------------------
\* Runs on short documents with every rule list
\* ------------------------------------------------------------------------

\* the most pages and the most rules of these runs
MaxRowPages == 2
MaxRules == 2

\* the rules of these runs: two rules of the same name, with and without a
\* pattern, a rule that the dispatch on the name does not recognise and a
\* rule left to the heuristics
RowRules ==
    { FieldRule("Apellidos y Nombres", ""),
      FieldRule("Apellidos y Nombres", "juan (perez)"),
      FieldRule("Clave", "clave (77)"),
      FieldRule("Cargo", "") }

InitRow ==
    /\ pdf_ok = TRUE
    /\ doc \in SeqsUpTo({TextCert, TextOther, TextBlank}, MaxRowPages)
    /\ fields \in SeqsUpTo(RowRules, MaxRules)
    /\ use_template_heuristics \in BOOLEAN
    /\ include_pdf_page \in BOOLEAN
    /\ max_pages = 2000
    /\ WorkerInit
    /\ NoHeuristicCall

SpecRow == InitRow /\ [][Next]_vars

\* the value of a rule's own pattern on a text
OwnPatternValue(pattern, text) ==
    LET m == pat_search(pattern, text)
    IN  IF m.matched THEN normalize_spaces(m.val) ELSE <<>>

\* C3: on every page, every rule whose pattern is not empty is resolved by
\* its own pattern only: its value is the normalized group (or match) of its
\* own pattern, the empty string without a match, and no heuristic extractor
\* is invoked while it is resolved, whatever the names of the other rules.
C3_UserPatternPrecedence ==
    \A i \in 1 .. Len(resolved) : \A k \in 1 .. Len(fields) :
        fields[k].pattern # <<>> =>
            /\ resolved[i][k].called = "none"
            /\ resolved[i][k].val = OwnPatternValue(fields[k].pattern, doc[i])

\* the row of a page as a function of the text of the page, the rule list,
\* the two flags and the index of the page: each name maps to the value of
\* the last rule of that name (its pattern, else the heuristic of the name
\* when the fallback is on, else the empty string), and the page column to
\* the index plus one
RowOf(text, rules, heuristics, with_page, page_idx) ==
    LET names == {rules[k].name : k \in 1 .. Len(rules)}
        last(n) == CHOOSE k \in 1 .. Len(rules) :
                      /\ rules[k].name = n
                      /\ \A j \in k + 1 .. Len(rules) : rules[j].name # n
        value(n) ==
            IF rules[last(n)].pattern # <<>>
            THEN OwnPatternValue(rules[last(n)].pattern, text)
            ELSE IF heuristics THEN CallExtractor(Extractor(n), text)
            ELSE <<>>
        columns == [n \in names |-> value(n)]
    IN  IF with_page THEN (PaginaPDF :> page_idx + 1) @@ columns ELSE columns

\* C10: in every run, whenever the cancel flag is set, the row of page i is
\* RowOf of the text of page i, the rule list, the two flags and i: the rows
\* are in page order and none depends on the text of another page or on the
\* moment of a cancellation; the rows handed to the writer are these rows.
C10_RowIsFunctionOfItsPage ==
    /\ \A i \in 1 .. Len(data_rows) :
          data_rows[i] = RowOf(doc[i], fields, use_template_heuristics,
                               include_pdf_page, i - 1)
    /\ \A w \in 1 .. Len(writes) :
          writes[w].rows = [i \in 1 .. total_pages |->
                              RowOf(doc[i], fields, use_template_heuristics,
                                    include_pdf_page, i - 1)]

\* a run that completed although cancel() was called, on a page with text
\* followed by a page without
C10_Witness ==
    /\ pc = "done"
    /\ _cancel
    /\ Count("finished") = 1
    /\ doc = <<TextCert, TextBlank>>
    /\ fields = << FieldRule("Cargo", ""), FieldRule("Clave", "clave (77)") >>
    /\ use_template_heuristics
    /\ Len(writes[1].rows) = 2
    /\ writes[1].rows[1][Chars("Clave")] = Chars("77")
    /\ writes[1].rows[2][Chars("Clave")] = <<>>

\* ------------------------------------------------------------------------
\* Calls of h_find_nombre_y_doc
\* ------------------------------------------------------------------------

\* h_find_nombre_y_doc(h_text) returns
Call_h_find_nombre_y_doc ==
    /\ h_fn = "h_find_nombre_y_doc"
    /\ ~h_done
    /\ h_out' = h_find_nombre_y_doc(h_text)
    /\ h_done' = TRUE
    /\ UNCHANGED <<inputs, _cancel, pc, locals, observed, h_fn, h_text, window>>

NextNombre == Call_h_find_nombre_y_doc

\* the most lines of a page text of these calls
MaxLines == 4

\* the lines of those texts: a start header, the label of the name, names,
\* documents, a stop keyword and a job title
NombreLines ==
    { Chars("DATOS DEL TRABAJADOR"),
      Chars("Apellidos y Nombres"),
      Chars("JUAN PEREZ"),
      Chars("CC 12345"),
      Chars("CARGO"),
      Chars("OPERARIO DE ASEO GENERAL"),
      Chars("ANA RUIZ TI 98765") }

\* no worker runs during these calls
NoRun ==
    /\ pdf_ok = FALSE
    /\ doc = <<>>
    /\ fields = <<>>
    /\ use_template_heuristics = FALSE
    /\ include_pdf_page = FALSE
    /\ max_pages = 0
    /\ WorkerInit
    /\ window = MainWindowInit

InitNombre ==
    /\ NoRun
    /\ h_fn = "h_find_nombre_y_doc"
    /\ h_text \in {join(<<"\n">>, ls) : ls \in SeqsUpTo(NombreLines, MaxLines)}
    /\ h_out = <<>>
    /\ h_done = FALSE

SpecNombre == InitNombre /\ [][NextNombre]_vars

\* the line of the first start header, 1-based, 0 without one
HeaderLine(lines) ==
    LET hits == {i \in 1 .. Len(lines) : HasMarker(lines[i], start_markers)}
    IN  IF hits = {} THEN 0 ELSE Least(hits)

\* the lines of the personal-data block: from the first start header up to,
\* not including, the first later line with a stop keyword
BlockLines(lines) ==
    LET h == HeaderLine(lines)
        stops == {j \in h + 1 .. Len(lines) : HasMarker(lines[j], stop_markers)}
    IN  IF h = 0 THEN {}
        ELSE h .. (IF stops = {} THEN Len(lines) ELSE Least(stops) - 1)

\* the names a line can give: the title-cased leading segments of the line
NamesOfLine(ln) == {titlecase(clean(SubSeq(ln, 1, n))) : n \in 1 .. Len(ln)}

\* the documents a line can give: by the document pattern, or by the pattern
\* of a name and a document on one line
DocsOfLine(ln) ==
    (IF doc_re_search(ln) = <<>> THEN {} ELSE {FormatDoc(doc_re_search(ln))})
        \cup (IF same_line_search(ln) = <<>> THEN {}
              ELSE {FormatDoc(<<same_line_search(ln)[2], same_line_search(ln)[3]>>)})

\* C7: the name and the document that h_find_nombre_y_doc returns each
\* derive from a line of the personal-data block; nothing is taken from a
\* line before the start header or from the stop line on, and without a
\* start header the result is ("", "").
C7_BlockConfinement ==
    h_done =>
        LET lines == PreparedLines(h_text)
            block == BlockLines(lines)
        IN  /\ h_out[1] # <<>> => \E k \in block : h_out[1] \in NamesOfLine(lines[k])
            /\ h_out[2] # <<>> => \E k \in block : h_out[2] \in DocsOfLine(lines[k])
            /\ HeaderLine(lines) = 0 => h_out = << <<>>, <<>> >>

\* the first name and its document are returned, not the name after the
\* stop line
C7_Witness ==
    /\ h_done
    /\ h_text = Chars("DATOS DEL TRABAJADOR\nANA RUIZ TI 98765\nCARGO\nJUAN PEREZ")
    /\ h_out = << Chars("Ana Ruiz"), Chars("TI 98765") >>

\* the line has a word of the deny-list of job titles
DenyListed(ln) ==
    \E i \in 1 .. Len(split(upper(ln))) : split(upper(ln))[i] \in cargo_tokens

\* C8: a name that h_find_nombre_y_doc returns is the title-cased form of a
\* block line, or of a leading segment of one, that satisfies the name
\* predicate, and it is never the title-cased form of a block line that
\* has a deny-listed word.
C8_DenyListEnforcement ==
    (h_done /\ h_out[1] # <<>>) =>
        LET lines == PreparedLines(h_text)
            block == BlockLines(lines)
        IN  /\ \E k \in block : \E n \in 1 .. Len(lines[k]) :
                  /\ looks_like_upper_name(SubSeq(lines[k], 1, n))
                  /\ h_out[1] = titlecase(clean(SubSeq(lines[k], 1, n)))
            /\ \A k \in block :
                  DenyListed(lines[k]) => h_out[1] # titlecase(clean(lines[k]))

\* the job title under the label is passed over and the next line is the name
C8_Witness ==
    /\ h_done
    /\ h_text = Chars("DATOS DEL TRABAJADOR\nApellidos y Nombres\nOPERARIO DE ASEO GENERAL\nJUAN PEREZ")
    /\ h_out[1] = Chars("Juan Perez")

\* ------------------------------------------------------------------------
\* Rule lists with repeated names
\* ------------------------------------------------------------------------

FieldNames(rules) == {rules[k].name : k \in 1 .. Len(rules)}

\* the position of the last rule of the name n in the list
LastRule(rules, n) == GreatestOr({k \in 1 .. Len(rules) : rules[k].name = n}, 0)

\* the row that a list holding only the rule fr produces for a page text
RowOfRuleAlone(fr, text, heuristics) ==
    PageRow(<<fr>>,
            PageResolution(<<fr>>, CompileRules(<<fr>>, 1, <<>>).compiled, text, heuristics),
            FALSE, 0)

\* C11: a rule list with repeated names is not rejected (no run ends with
\* an error about its rules); every row has exactly one entry per name of
\* the list, and the value of a name is the value that the last rule of
\* that name, in list order, produces for the page when it is alone in the
\* list.
C11_DuplicateNamesLastWins ==
    /\ \A e \in 1 .. Len(emitted) :
          emitted[e].sig = "error" => emitted[e].kind \in {"cancel", "write"}
    /\ \A i \in 1 .. Len(data_rows) :
          /\ DOMAIN data_rows[i] \ {PaginaPDF} = FieldNames(fields)
          /\ \A n \in FieldNames(fields) :
                data_rows[i][n] =
                    RowOfRuleAlone(fields[LastRule(fields, n)], doc[i],
                                   use_template_heuristics)[n]

\* a completed run with two rules of one name, the pattern in the last one:
\* the row holds the group of the pattern, not the value of the heuristic
C11_Witness ==
    /\ pc = "done"
    /\ Count("finished") = 1
    /\ fields = << FieldRule("Apellidos y Nombres", ""),
                   FieldRule("Apellidos y Nombres", "juan (perez)") >>
    /\ doc = <<TextCert>>
    /\ use_template_heuristics
    /\ DOMAIN writes[1].rows[1] \ {PaginaPDF} = {Chars("Apellidos y Nombres")}
    /\ writes[1].rows[1][Chars("Apellidos y Nombres")] = Chars("PEREZ")

\* ------------------------------------------------------------------------
\* The write
\* ------------------------------------------------------------------------

\* C12: the writer is invoked at most once in a run, and only when all the
\* total_pages pages were processed and the run was not cancelled; when it
\* fails the run has returned with exactly one error notification, the
\* write error, as its last notification, and neither finished nor the
\* completion message is ever emitted, and the writer is not invoked again.
C12_WriteFailure ==
    /\ Len(writes) <= 1
    /\ writes # <<>> =>
          /\ Len(extracted) = total_pages
          /\ writes[1].rows = data_rows
          /\ Len(data_rows) = total_pages
          /\ ~Cancelled
    /\ (writes # <<>> /\ ~writes[1].ok) =>
          /\ pc = "done"
          /\ Count("error") = 1
          /\ emitted[Len(emitted)] = Error("write", 0)
          /\ Count("finished") = 0
          /\ \A i \in 1 .. Len(emitted) : emitted[i].kind # "completed"

\* a run over three pages whose write failed
C12_Witness ==
    /\ pc = "done"
    /\ total_pages = 3
    /\ Len(writes) = 1
    /\ ~writes[1].ok
    /\ Len(writes[1].rows) = 3
    /\ emitted[Len(emitted)] = Error("write", 0)

\* ------------------------------------------------------------------------
\* Calls of h_find_fecha
\* ------------------------------------------------------------------------

\* h_find_fecha(h_text) returns
Call_h_find_fecha ==
    /\ h_fn = "h_find_fecha"
    /\ ~h_done
    /\ h_out' = h_find_fecha(h_text)
    /\ h_done' = TRUE
    /\ UNCHANGED <<inputs, _cancel, pc, locals, observed, h_fn, h_text, window>>

NextFecha == Call_h_find_fecha

\* the most lines of a page text of these calls
MaxFechaLines == 4

FooterLine == Chars("Impreso el 01 01 2020")
ExamDateLine == Chars("20 03 2024")

\* the lines of those texts: the footer with the print date, the date of
\* the exam, a line of 30 characters without a date and the labelled date
FechaLines ==
    { FooterLine,
      ExamDateLine,
      Chars("Paciente citado en la sede uno"),
      Chars("DÍA MES AÑO 15 08 2023") }

InitFecha ==
    /\ NoRun
    /\ h_fn = "h_find_fecha"
    /\ h_text \in {join(<<"\n">>, ls) : ls \in SeqsUpTo(FechaLines, MaxFechaLines)}
    /\ h_out = <<>>
    /\ h_done = FALSE

SpecFecha == InitFecha /\ [][NextFecha]_vars

\* the text has the footer and, anywhere after it, the date of the exam
FooterThenExamDate(text) ==
    \E p, q \in 0 .. Len(text) :
        /\ MatchAt(text, FooterLine, p)
        /\ q >= p + Len(FooterLine)
        /\ MatchAt(text, ExamDateLine, q)

Preceding60(text, q) == Slice(text, IF q - 60 > 0 THEN q - 60 ELSE 0, q)

\* the text has the date of the exam at a position whose preceding 60
\* characters do not contain "Impreso el"
ExamDateOutsideFooter(text) ==
    \E q \in 0 .. Len(text) :
        /\ MatchAt(text, ExamDateLine, q)
        /\ ~Contains(Preceding60(text, q), Chars("Impreso el"))

Call_normalize_spaces ==
    /\ h_fn = "normalize_spaces"
    /\ ~h_done
    /\ h_out' = normalize_spaces(h_text)
    /\ h_done' = TRUE
    /\ UNCHANGED <<inputs, _cancel, pc, locals, observed, h_fn, h_text, window>>

NextNorm == Call_normalize_spaces

\* the longest string of these calls
MaxNormLen == 4

InitNorm ==
    /\ NoRun
    /\ h_fn = "normalize_spaces"
    /\ h_text \in SeqsUpTo({" ", "\t", "\n", "a", "b"}, MaxNormLen)
    /\ h_out = <<>>
    /\ h_done = FALSE

SpecNorm == InitNorm /\ [][NextNorm]_vars

\* the positions of s that the normalization keeps: the characters that are
\* not white space, and the first character of every run of white space
\* that has such a character before it and after it
KeptPositions(s) ==
    {i \in 1 .. Len(s) :
        \/ s[i] \notin Spaces
        \/ /\ i > 1
           /\ s[i - 1] \notin Spaces
           /\ \E j \in i + 1 .. Len(s) : s[j] \notin Spaces}

\* s with every inner run of white space as one space and without the
\* leading and the trailing run
OneSpacePerRun(s) ==
    [n \in 1 .. Cardinality(KeptPositions(s)) |->
        LET kn == CHOOSE k \in KeptPositions(s) :
                      Cardinality({j \in KeptPositions(s) : j <= k}) = n
        IN  IF s[kn] \in Spaces THEN " " ELSE s[kn]]

\* C14: normalize_spaces applied to its result returns the result; the
\* result for the empty string (and for None) is the empty string; the
\* result neither begins nor ends with white space, and it is the input
\* with every maximal inner run of spaces, tabs and newlines as exactly one
\* space.
C14_NormalizeIdempotent ==
    h_done =>
        /\ normalize_spaces(h_out) = h_out
        /\ h_text = None => h_out = <<>>
        /\ h_out # <<>> => (h_out[1] \notin Spaces /\ h_out[Len(h_out)] \notin Spaces)
        /\ h_out = OneSpacePerRun(h_text)

\* a tab and a newline between two letters became one space
C14_Witness ==
    /\ h_done
    /\ h_text = <<"a", "\t", "\n", "b">>
    /\ h_out = <<"a", " ", "b">>

\* ------------------------------------------------------------------------
\* Where the cancel flag is read
\* ------------------------------------------------------------------------

\* the check of the flag for the last page is behind the run
PastLastCheck ==
    \/ pc = "page" /\ idx + 1 = total_pages
    \/ pc = "loop" /\ idx >= total_pages
    \/ pc \in {"write", "written", "completed"}

\* C15: the cancel flag decides one step only, the check at the head of a
\* page iteration, before the text of that page is extracted.  A page in
\* progress is completed whatever the flag: its text is extracted and its
\* row appended, and no cancellation is reported by that step.  At the
\* check a set flag ends the run before the page is touched, so at most
\* the page in progress when the flag was set is processed after it.  A
\* cancellation is reported by no other step, and once the check for the
\* last page is passed the run is never cancelled: when it returns the
\* writer was invoked with all the total_pages rows.
C15_CancelPollPoints ==
    [][ /\ (pc = "page" /\ pc' # pc)
            => /\ pc' = "loop"
               /\ extracted' = Append(extracted, idx)
               /\ Len(data_rows') = Len(data_rows) + 1
               /\ idx' = idx + 1
               /\ \A i \in 1 .. Len(emitted') : emitted'[i].sig # "error"
        /\ (pc = "loop" /\ idx < total_pages /\ pc' # pc)
            => IF _cancel
               THEN /\ pc' = "done"
                    /\ emitted' = Append(emitted, Error("cancel", 0))
                    /\ extracted' = extracted
                    /\ data_rows' = data_rows
                    /\ Len(extracted) = idx
               ELSE /\ pc' = "page"
                    /\ emitted' = emitted
        /\ (emitted' # emitted /\ emitted'[Len(emitted')] = Error("cancel", 0))
            => (pc = "loop" /\ idx < total_pages /\ _cancel)
        /\ PastLastCheck
            => /\ \A i \in 1 .. Len(emitted') : emitted'[i] # Error("cancel", 0)
               /\ pc' = "done" => (Len(writes') = 1 /\ Len(writes'[1].rows) = total_pages)
      ]_vars

\* cancel() was called after the check for the last of three pages: the
\* run completed and wrote the three rows
C15_Witness ==
    /\ pc = "done"
    /\ _cancel
    /\ total_pages = 3
    /\ Count("finished") = 1
    /\ Count("error") = 0
    /\ Len(writes[1].rows) = 3

\* ------------------------------------------------------------------------
\* The progress of the page loop
\* ------------------------------------------------------------------------

\* the percentage of the last notification of the page loop, 0 before the
\* first one
LastLoopValue ==
    IF PageProgressAt = {} THEN 0
    ELSE emitted[CHOOSE i \in PageProgressAt : \A j \in PageProgressAt : j <= i].pct

\* the page loop has processed its last page
LoopCompleted == pc \in {"loop", "write", "written", "completed", "done"}
                    /\ pdf_ok /\ idx = total_pages /\ total_pages >= 1

\* the percentages of the loop are strictly increasing, at most
\* min(total_pages, 100) of them were emitted, and the last one is 100 once
\* the loop is over a document of at least one page
LoopProgressIncreasing ==
    /\ \A i, j \in PageProgressAt : i < j => emitted[i].pct < emitted[j].pct
    /\ Cardinality(PageProgressAt) <= Min(total_pages, 100)
    /\ LoopCompleted => LastLoopValue = 100

\* the step that processes the k-th page emits floor(k * 100 / total_pages)
\* if and only if it differs from the last value of the loop
LoopProgressOnChange ==
    (pc = "page" /\ pc' # pc) =>
        IF ((idx + 1) * 100) \div total_pages # LastLoopValue
        THEN emitted' = Append(emitted,
                               Progress(((idx + 1) * 100) \div total_pages, "page", idx + 1))
        ELSE emitted' = emitted

\* C16: after the k-th page is processed a progress notification with
\* floor(k * 100 / total_pages) is emitted if and only if that value
\* differs from the last value emitted by the loop (0 before the first);
\* the percentages of the loop are strictly increasing, at most
\* min(total_pages, 100) are emitted and the last one is 100 when
\* total_pages >= 1.
C16_ProgressOnChange ==
    /\ []LoopProgressIncreasing
    /\ [][LoopProgressOnChange]_vars

\* 27 pages of a document of more than 100 were processed and 25
\* percentages emitted: two pages did not change the percentage
C16_Witness ==
    /\ pc = "loop"
    /\ total_pages > 100
    /\ idx = 27
    /\ Cardinality(PageProgressAt) = 25
    /\ LastLoopValue = 25

\* ------------------------------------------------------------------------
\* Runs whose rules are not recognised, do not match, or are named as the
\* page column
\* ------------------------------------------------------------------------

\* the most pages and the most rules of these runs
MaxFieldPages == 2
MaxFieldRules == 2

\* the rules of these runs: a name that the dispatch does not recognise,
\* without and with a pattern, a name left to its heuristic, a recognised
\* name with a pattern, and a rule named as the page column
FieldsRules ==
    { FieldRule("Clave", ""),
      FieldRule("Clave", "clave (77)"),
      FieldRule("Cargo", ""),
      FieldRule("Apellidos y Nombres", "clave (77)"),
      FieldRule("Página PDF", "clave (77)") }

InitFields ==
    /\ pdf_ok = TRUE
    /\ doc \in SeqsUpTo({TextCert, TextOther, TextBlank}, MaxFieldPages)
    /\ fields \in SeqsUpTo(FieldsRules, MaxFieldRules)
    /\ use_template_heuristics \in BOOLEAN
    /\ include_pdf_page \in BOOLEAN
    /\ max_pages = 2000
    /\ WorkerInit
    /\ NoHeuristicCall

SpecFields == InitFields /\ [][Next]_vars

C18_PageNumberColumn ==
    \A i \in 1 .. Len(data_rows) :
        /\ Cardinality(DOMAIN data_rows[i]) =
              Cardinality(FieldNames(fields)) + (IF include_pdf_page THEN 1 ELSE 0)
        /\ include_pdf_page => data_rows[i][PaginaPDF] = i
        /\ ~include_pdf_page => DOMAIN data_rows[i] = FieldNames(fields)
        /\ \A n \in FieldNames(fields) :
              data_rows[i][n] = resolved[i][LastRule(fields, n)].val

\* ------------------------------------------------------------------------
\* Calls of h_find_nombre_y_doc on texts that start with the header
\* ------------------------------------------------------------------------

\* the most lines after the header of the short texts
MaxBlockLines == 4

\* the most lines without a name or a document between the document and the
\* name-like line above it, and the one below it, of the long texts
MaxGapBefore == 7
MaxGapAfter == 5

\* a start header that does not look like a name
BlockHeader == Chars("DATOS DEL TRABAJADOR / ASPIRANTE")

\* a line that is neither a name nor a document nor a stop line
FillerLine == Chars("EDAD 30")

\* the lines after the header: names, one of them with the stop keyword ARL
\* inside a word, a document, the label of the name, a name with its
\* document
BlockTextLines ==
    { Chars("JUAN PEREZ"),
      Chars("ANA RUIZ"),
      FillerLine,
      Chars("CC 12345"),
      Chars("CARLOS DIAZ"),
      Chars("Apellidos y Nombres"),
      Chars("LUZ MARIN TI 98765") }

\* n lines FillerLine
Fillers(n) == [i \in 1 .. n |-> FillerLine]

\* the header, a line, a gap, the document, a gap, a line
LongTexts ==
    { join(<<"\n">>, <<BlockHeader, first>> \o Fillers(a) \o <<Chars("CC 12345")>>
                        \o Fillers(b) \o <<last>>) :
        <<first, a, b, last>> \in {Chars("JUAN PEREZ"), FillerLine} \X (0 .. MaxGapBefore)
                                  \X (0 .. MaxGapAfter) \X {Chars("ANA RUIZ"), FillerLine} }

InitBlock ==
    /\ NoRun
    /\ h_fn = "h_find_nombre_y_doc"
    /\ h_text \in {join(<<"\n">>, <<BlockHeader>> \o ls) :
                       ls \in SeqsUpTo(BlockTextLines, MaxBlockLines)} \cup LongTexts
    /\ h_out = <<>>
    /\ h_done = FALSE

SpecBlock == InitBlock /\ [][NextNombre]_vars

\* the result of the first strategy that succeeds on a block, in the order
\* A, B, C; ("", "") when none does
FirstSuccess(block) ==
    IF block = <<>> THEN << <<>>, <<>> >>
    ELSE IF StrategyA(block) # <<>> THEN StrategyA(block)
    ELSE IF StrategyB(block) # <<>> THEN StrategyB(block)
    ELSE IF StrategyC(block) # <<>> THEN StrategyC(block)
    ELSE << <<>>, <<>> >>

\* the first line after the header line, 1-based, whose uppercased text
\* contains a stop keyword as a substring; one past the last line without one
StopLine(lines) ==
    LET stops == {j \in HeaderLine(lines) + 1 .. Len(lines) :
                     \E k \in 1 .. Len(stop_markers) :
                        Contains(upper(lines[j]), stop_markers[k])}
    IN  IF stops = {} THEN Len(lines) + 1 ELSE Least(stops)

\* C19: the block ends at the first line after the header line whose
\* uppercased text contains a stop keyword as a substring, also inside a
\* longer word; the result of h_find_nombre_y_doc is the one the strategies
\* give on the lines from the header up to, not including, that line, and
\* on the lines up to the last one when no line has a stop keyword.
C19_StopKeywordSubstring ==
    (h_done /\ HeaderLine(PreparedLines(h_text)) # 0) =>
        LET lines == PreparedLines(h_text)
        IN  h_out = FirstSuccess(SubSeq(lines, HeaderLine(lines), StopLine(lines) - 1))

\* the name CARLOS DIAZ has ARL inside a word: it ends the block, and the
\* document after it is not returned
C19_Witness ==
    /\ h_done
    /\ h_text = join(<<"\n">>, <<BlockHeader, Chars("CARLOS DIAZ"), Chars("CC 12345")>>)
    /\ h_out = << <<>>, <<>> >>

\* strategy C as the claim C20 states it: the first block line with a
\* document, the nearest name-like line among the up to 6 lines before it,
\* otherwise the nearest among the up to 4 lines after it
AnchoredResult(block) ==
    LET docs == {i \in 1 .. Len(block) : doc_re_search(block[i]) # <<>>}
        i == Least(docs)
        before == {j \in 1 .. Len(block) :
                      j < i /\ i - j <= 6 /\ looks_like_upper_name(strip(block[j]))}
        after == {j \in 1 .. Len(block) :
                     j > i /\ j - i <= 4 /\ looks_like_upper_name(strip(block[j]))}
        name == IF before # {} THEN titlecase(clean(strip(block[GreatestOr(before, 0)])))
                ELSE IF after # {} THEN titlecase(clean(strip(block[Least(after)])))
                ELSE <<>>
    IN  IF docs = {} THEN << <<>>, <<>> >>
        ELSE << name, FormatDoc(doc_re_search(block[i])) >>

Call_h_find_block ==
    /\ h_fn = "h_find_block"
    /\ ~h_done
    /\ h_out' = h_find_block(h_text[1], h_text[2], h_text[3])
    /\ h_done' = TRUE
    /\ UNCHANGED <<inputs, _cancel, pc, locals, observed, h_fn, h_text, window>>

NextCut == Call_h_find_block

\* the most characters of a text of these calls
MaxCutLen == 4

\* the start key and the stop keys of these calls: two of the stop keys
\* overlap
CutStartKey == <<"S">>
CutStopKeys == { <<"B", "C">>, <<"A", "B", "C">>, <<"x">> }

\* the lists of distinct stop keys, in every order
CutStopLists ==
    {ks \in SeqsUpTo(CutStopKeys, 2) : \A i, j \in 1 .. Len(ks) : i # j => ks[i] # ks[j]}

InitCut ==
    /\ NoRun
    /\ h_fn = "h_find_block"
    /\ h_text \in SeqsUpTo({"S", "A", "B", "C", "x", "\n"}, MaxCutLen)
                      \X {CutStartKey} \X CutStopLists
    /\ h_out = <<>>
    /\ h_done = FALSE

SpecCut == InitCut /\ [][NextCut]_vars

\* the segments of a piece of text: its lines, stripped of " -\t" and the
\* bullet, with the white space normalized, without the empty ones, joined
\* by "; "
BlockSegments(sub) ==
    join(Chars("; "),
         SelectSeq([i \in 1 .. Len(splitlines(sub)) |->
                       normalize_spaces(strip_chars(splitlines(sub)[i],
                                                    {" ", "-", Bullet, "\t"}))],
                   LAMBDA l : l # <<>>))

\* the earliest position of the piece of text at which a stop key occurs,
\* its length without one
EarliestStop(sub, stop_keys) ==
    LeastOr({p \in 0 .. Len(sub) :
                \E k \in 1 .. Len(stop_keys) : MatchAt(sub, stop_keys[k], p)}, Len(sub))

MaxLabelLines == 4

\* the label alone on its line
LabelOnlyLine == Chars("DÍA MES AÑO")

\* the lines of those texts: two labelled dates, one of them without the
\* accents, the label alone, the date of the exam, the footer, and a label
\* whose day has one digit
LabelLines ==
    { Chars("DÍA MES AÑO 15 08 2023"),
      Chars("DIA MES ANO 01 02 2021"),
      LabelOnlyLine,
      ExamDateLine,
      FooterLine,
      Chars("DÍA MES AÑO 5 08 2023") }

InitLabel ==
    /\ NoRun
    /\ h_fn = "h_find_fecha"
    /\ h_text \in {join(<<"\n">>, ls) : ls \in SeqsUpTo(LabelLines, MaxLabelLines)}
    /\ h_out = <<>>
    /\ h_done = FALSE

SpecLabel == InitLabel /\ [][NextFecha]_vars

\* the positions of the text at which the label is followed by the groups
\* dd mm yyyy, separated by white space
LabelledAt(text) == {p \in 0 .. Len(text) : MatchesAt(text, p, LabelledDate)}

\* yyyy-mm-dd of the labelled occurrence at p
LabelledDateAt(text, p) ==
    LET e == Ends(text, p, LabelledDate) IN FormatDate(text, e[10], e[12], e[14])

\* the date of the first line of the text that is one of the two labelled
\* dates, <<>> without such a line
FirstLabelledLine(lines) ==
    LET date(l) == IF l = Chars("DÍA MES AÑO 15 08 2023") THEN Chars("2023-08-15")
                   ELSE IF l = Chars("DIA MES ANO 01 02 2021") THEN Chars("2021-02-01")
                   ELSE <<>>
        hits == {i \in 1 .. Len(lines) : date(lines[i]) # <<>>}
    IN  IF hits = {} THEN <<>> ELSE date(lines[Least(hits)])

\* C22: when the text has the label followed by the groups dd mm yyyy,
\* h_find_fecha returns yyyy-mm-dd of the first labelled occurrence,
\* whatever bare dates come before it; the scan of the bare dates gives the
\* result only without a labelled occurrence, and the result is empty when
\* neither gives a date.
C22_LabelledDatePriority ==
    h_done =>
        /\ LabelledAt(h_text) # {} =>
                h_out = LabelledDateAt(h_text, Least(LabelledAt(h_text)))
        /\ LabelledAt(h_text) = {} =>
                /\ h_out = BareDateScan(h_text, 0)
                /\ h_out \in {<<>>, Chars("2024-03-20")}
                /\ ~Contains(h_text, ExamDateLine) => h_out = <<>>
        /\ (~Contains(h_text, LabelOnlyLine \o <<"\n">>)
                /\ FirstLabelledLine(splitlines(h_text)) # <<>>) =>
                h_out = FirstLabelledLine(splitlines(h_text))

\* the labelled date is returned, not the bare date before it
C22_Witness ==
    /\ h_done
    /\ h_text = join(<<"\n">>, <<ExamDateLine, Chars("DIA MES ANO 01 02 2021"),
                                 Chars("DÍA MES AÑO 15 08 2023")>>)
    /\ h_out = Chars("2021-02-01")

\* ------------------------------------------------------------------------
\* The notifications after the terminal one
\* ------------------------------------------------------------------------

\* the run has emitted finished or error
TerminalEmitted == \E i \in 1 .. Len(emitted) : emitted[i].sig \in {"finished", "error"}

\* C23: once the worker has emitted finished or error, it emits no further
\* notification of any kind before run() returns.
C23_NothingAfterTerminal == [][TerminalEmitted => emitted' = emitted]_vars

\* ------------------------------------------------------------------------
\* Runs with any page cap
\* ------------------------------------------------------------------------

\* the longest document of these runs, and the range of max_pages
MaxCapPages == 3
MaxCapValue == 4

InitCap ==
    /\ pdf_ok \in BOOLEAN
    /\ doc \in IF pdf_ok THEN SeqsUpTo({TextBlank, TextCert}, MaxCapPages) ELSE {<<>>}
    /\ fields = << FieldRule("Cargo", "") >>
    /\ use_template_heuristics = TRUE
    /\ include_pdf_page = TRUE
    /\ max_pages \in (0 - MaxCapValue) .. MaxCapValue
    /\ WorkerInit
    /\ NoHeuristicCall

SpecCap == InitCap /\ [][Next]_vars

\* C27: for every integer max_pages, 0 <= total_pages <= page_count; with
\* max_pages <= 0 the run does not fail for that, total_pages is the page
\* count, the pages are extracted in order, and a run that reaches the
\* write has processed every page of the document.
C27_NonPositiveCap ==
    (pdf_ok /\ pc \notin {"idle", "open"}) =>
        /\ 0 <= total_pages
        /\ total_pages <= Len(doc)
        /\ max_pages <= 0 =>
              /\ total_pages = Len(doc)
              /\ extracted = [i \in 1 .. Len(extracted) |-> i - 1]
              /\ (Count("error") = 1) => (_cancel \/ \E w \in 1 .. Len(writes) : ~writes[w].ok)
              /\ pc \in {"write", "written", "completed"} =>
                    (Len(extracted) = Len(doc) /\ Len(data_rows) = Len(doc))
              /\ Count("finished") = 1 => Len(extracted) = Len(doc)

\* a run with max_pages = 0 has written the rows of all the pages
C27_Witness ==
    /\ pc = "done"
    /\ max_pages = 0
    /\ Len(doc) = MaxCapPages
    /\ Count("finished") = 1
    /\ Len(extracted) = Len(doc)
    /\ Len(writes[1].rows) = Len(doc)

\* ------------------------------------------------------------------------
\* The header and the label as names
\* ------------------------------------------------------------------------

\* the title-cased texts of the line that starts the block and of the lines
\* with the label of the name
HeaderAndLabelNames(lines) ==
    {titlecase(clean(lines[k])) :
        k \in {k \in 1 .. Len(lines) :
                  \/ k = HeaderLine(lines)
                  \/ Contains(upper(lines[k]), Chars("APELLIDOS Y NOMBRES"))}}

\* C25: the name that h_find_nombre_y_doc returns is never the title-cased
\* text of the line that starts the block nor of a line with the label
\* "Apellidos y Nombres".
C25_HeaderNeverName ==
    (h_done /\ h_out[1] # <<>>) => h_out[1] \notin HeaderAndLabelNames(PreparedLines(h_text))

\* ------------------------------------------------------------------------
\* Runs with the default template
\* ------------------------------------------------------------------------

DEFAULT_TEMPLATE ==
    << FieldRule("FECHA DE REALIZACIÓN DEL EXÁMEN", ""),
       FieldRule("TIPO DE EXÁMEN MÉDICO OCUPACIONAL", ""),
       FieldRule("Apellidos y Nombres", ""),
       FieldRule("Documento de Identificación", ""),
       FieldRule("Cargo", ""),
       FieldRule("CONCEPTO DE APTITUD OCUPACIONAL", ""),
       FieldRule("Exámenes practicados (base del concepto)", ""),
       FieldRule("RECOMENDACIONES MÉDICAS", ""),
       FieldRule("RECOMENDACIONES OCUPACIONALES", ""),
       FieldRule("HÁBITOS Y ESTILO DE VIDA SALUDABLES", "") >>

\* the longest document of these runs
MaxTemplatePages == 2

InitTemplate ==
    /\ pdf_ok = TRUE
    /\ doc \in SeqsUpTo({TextFull, TextCert, TextBlank}, MaxTemplatePages)
    /\ fields = DEFAULT_TEMPLATE
    /\ use_template_heuristics \in BOOLEAN
    /\ include_pdf_page \in BOOLEAN
    /\ max_pages \in {1, 2000}
    /\ WorkerInit
    /\ NoHeuristicCall

SpecTemplate == InitTemplate /\ [][Next]_vars

\* the extractor outputs the ten rules of the template stand for, in the
\* order of the template: date, exam type, name, document, job title,
\* fitness concept, exams performed, medical recommendations, occupational
\* recommendations, habits
TemplateExtractors ==
    << "h_find_fecha", "h_find_tipo_examen", "h_find_nombre", "h_find_doc",
       "h_find_cargo", "h_find_concepto", "h_find_examenes", "h_find_reco_medicas",
       "h_find_reco_ocup", "h_find_habitos" >>

\* C26: with the heuristics enabled, on every page each of the ten rules of
\* DEFAULT_TEMPLATE invokes its own extractor, the ten extractor outputs
\* are distinct, none of the rules falls through to the default of the
\* names that are not recognised, and the row holds the output of the
\* extractor of each rule.
C26_DefaultTemplateDispatch ==
    use_template_heuristics =>
        \A i \in 1 .. Len(resolved) :
            /\ Len(resolved[i]) = 10
            /\ \A k \in 1 .. 10 :
                  /\ resolved[i][k].called = TemplateExtractors[k]
                  /\ resolved[i][k].called # "none"
                  /\ resolved[i][k].val = ExtractorTable[doc[i]][TemplateExtractors[k]]
                  /\ data_rows[i][DEFAULT_TEMPLATE[k].name] = resolved[i][k].val
            /\ Cardinality({resolved[i][k].called : k \in 1 .. 10}) = 10

\* a completed run on the page with every section: the ten values of the
\* row are the ten sections of the page
C26_Witness ==
    /\ pc = "done"
    /\ use_template_heuristics
    /\ ~include_pdf_page
    /\ doc = <<TextFull>>
    /\ Count("finished") = 1
    /\ [k \in 1 .. 10 |-> writes[1].rows[1][DEFAULT_TEMPLATE[k].name]]
          = << Chars("2023-08-15"), Chars("EVALUACIÓN MÉDICO OCUPACIONAL INGRESO"),
               Chars("Juan Perez"), Chars("CC 12345"), Chars("Mensajero"), Chars("Apto"),
               Chars("AUDIOMETRIA"), Chars("CONTROL ANUAL"), Chars("PAUSAS ACTIVAS"),
               Chars("EJERCICIO") >>

\* ------------------------------------------------------------------------
\* ui.py: the main window and the worker it starts
\* ------------------------------------------------------------------------

\* The notifications of the worker reach the window through queued
\* connections: the window handles them one by one, in the order of their
\* emission, whenever its event loop runs, also the event loop of an open
\* message box.  window.delivered counts the notifications handled so far;
\* the worker of the variables pc, emitted, ... is the first one the window
\* starts.  Of a later worker the model keeps only that it was created and
\* started: window.later_start is the position of run() of the first worker
\* at that moment, and window.late_progress counts the progress
\* notifications of the first worker handled after it.

\* _start: a click on the enabled Start button, with valid inputs
MainWindow_start ==
    /\ window.btn_start
    /\ ~window.dialog
    /\ pc = "idle"
    /\ window' = [window EXCEPT !.btn_start = FALSE, !.btn_cancel = TRUE]
    /\ pc' = "open"
    /\ UNCHANGED <<inputs, _cancel, locals, observed, h_fn, h_text, h_out, h_done>>

\* _start once more: self.worker is replaced by a new worker, which starts
MainWindow_start_again ==
    /\ window.btn_start
    /\ ~window.dialog
    /\ pc # "idle"
    /\ window.later_start = "none"
    /\ window' = [window EXCEPT !.btn_start = FALSE, !.btn_cancel = TRUE,
                                !.later_start = pc]
    /\ UNCHANGED <<inputs, _cancel, pc, locals, observed, h_fn, h_text, h_out, h_done>>

\* _cancel: a click on the enabled Cancel button while self.worker runs
MainWindow_cancel ==
    /\ window.btn_cancel
    /\ ~window.dialog
    /\ window.later_start = "none"
    /\ pc \notin {"idle", "done"}
    /\ ~_cancel
    /\ _cancel' = TRUE
    /\ UNCHANGED <<inputs, pc, locals, observed, hvars>>

\* the next notification in the queue of the window
Pending == emitted[window.delivered + 1]

\* _on_progress
MainWindow_on_progress ==
    /\ window.delivered < Len(emitted)
    /\ Pending.sig = "progress"
    /\ window' = [window EXCEPT !.delivered = @ + 1,
                                !.late_progress =
                                    IF window.later_start # "none" THEN @ + 1 ELSE @]
    /\ UNCHANGED <<inputs, _cancel, pc, locals, observed, h_fn, h_text, h_out, h_done>>

\* _on_finished: the buttons, then the message box
MainWindow_on_finished ==
    /\ window.delivered < Len(emitted)
    /\ Pending.sig = "finished"
    /\ window' = [window EXCEPT !.delivered = @ + 1, !.btn_start = TRUE,
                                !.btn_cancel = FALSE, !.dialog = TRUE]
    /\ UNCHANGED <<inputs, _cancel, pc, locals, observed, h_fn, h_text, h_out, h_done>>

\* _on_error: the buttons, then the message box
MainWindow_on_error ==
    /\ window.delivered < Len(emitted)
    /\ Pending.sig = "error"
    /\ window' = [window EXCEPT !.delivered = @ + 1, !.btn_start = TRUE,
                                !.btn_cancel = FALSE, !.dialog = TRUE]
    /\ UNCHANGED <<inputs, _cancel, pc, locals, observed, h_fn, h_text, h_out, h_done>>

\* the user closes the message box
CloseMessageBox ==
    /\ window.dialog
    /\ window' = [window EXCEPT !.dialog = FALSE]
    /\ UNCHANGED <<inputs, _cancel, pc, locals, observed, h_fn, h_text, h_out, h_done>>

NextUI ==
    \/ MainWindow_start
    \/ MainWindow_start_again
    \/ MainWindow_cancel
    \/ MainWindow_on_progress
    \/ MainWindow_on_finished
    \/ MainWindow_on_error
    \/ CloseMessageBox
    \/ run

\* the longest document of these runs
MaxUIPages == 2

InitUI ==
    /\ pdf_ok \in BOOLEAN
    /\ doc \in IF pdf_ok THEN SeqsUpTo({TextBlank, TextCert}, MaxUIPages) ELSE {<<>>}
    /\ fields = << FieldRule("Cargo", "") >>
    /\ use_template_heuristics = TRUE
    /\ include_pdf_page = TRUE
    /\ max_pages = 2000
    /\ WorkerInit
    /\ NoHeuristicCall

SpecUI == InitUI /\ [][NextUI]_vars

\* C24: the Start button is enabled only when no run() is executing; a
\* second worker is never created and started while run() of the previous
\* one has not returned, and no progress notification of the earlier run
\* is handled after the later run has started.
C24_SingleActiveWorker ==
    /\ window.btn_start => pc \in {"idle", "done"}
    /\ window.later_start \in {"none", "done"}
    /\ window.late_progress = 0

====
